---- MODULE Spec2Model ----
(***************************************************************************)
(* Track session engine of toolpath-cli (crates/toolpath-cli/src/           *)
(* cmd_track.rs), the DAG query engine (crates/toolpath/src/query.rs) and   *)
(* the live watcher of toolpath-claude (crates/toolpath-claude/src/         *)
(* async_watcher.rs, reader.rs).                                            *)
(*                                                                          *)
(* A session is one file on disk holding a Path document with the tracking  *)
(* bookkeeping (TrackState) in meta.track.  Every operation is one process  *)
(* invocation: load_session, mutate in memory, save_session.  With a single *)
(* writer an invocation is atomic, so each operation is one action over     *)
(* the on-disk record (Spec and the specifications derived from it).        *)
(* SpecWriters takes the invocation apart for two processes at work on the  *)
(* same file: load and mutate, create the temporary file, write it, rename  *)
(* it, with failures and kills of the process.  SpecList adds the other     *)
(* files of the session directory and `track list`.  SpecQuery runs         *)
(* ancestors and dead_ends step by step on arbitrary Step collections.      *)
(* SpecWatcher is the background task of the watcher with its log, its      *)
(* channels and its consumer.                                               *)
(*                                                                          *)
(* Option<T> values are modelled as sequences of length at most one:        *)
(* <<>> is None and <<x>> is Some(x).  A content is the sequence of its     *)
(* lines.                                                                   *)
(***************************************************************************)
EXTENDS Integers, Sequences, FiniteSets, TLC

VARIABLES
    session_exists,  \* the session file is on disk
    steps,           \* path_doc.steps
    head,            \* path_doc.path.head
    buffer_cache,    \* TrackState.buffer_cache : seq -> content
    seq_to_step,     \* TrackState.seq_to_step  : seq -> step id ("" = no step)
    step_counter,    \* TrackState.step_counter
    emitted,         \* the document the latest call wrote to stdout / --output
    last,            \* the latest call: operation, record_step's seq, result
    origin,          \* history: origin[i] = the record_step call that created steps[i]
    skipped,         \* history: seq -> the record_step call that cached it with an empty diff
    query,           \* query::ancestors and query::dead_ends at work on (steps, head)
    saving,          \* the processes running record_step at the same time
    directory,       \* the session directory and `track list`
    watcher,         \* the live watcher of toolpath-claude (async_watcher.rs)
    convo            \* a library call of toolpath-claude at work: reads, a poll, derive_path

\* Each of the five is a record while its part of the program runs.
\* query: ancestors and dead_ends
anc_stack == query.anc_stack          \* ancestors: `stack`, the ids still to visit
anc_result == query.anc_result        \* ancestors: `result`, the ids visited so far
anc_expanded == query.anc_expanded    \* history: the ids whose parents were pushed, in order
dead_ends_out == query.dead_ends_out  \* dead_ends: the Steps returned (None until it returns)
\* saving: the concurrent processes and the bytes of the session file
writers == saving.writers             \* per process: position, arguments, in-memory record, result
tmp_files == saving.tmp_files         \* per process: its NamedTempFile in the session directory
file_written == saving.file_written   \* how many writes of its record the session file holds
last_writer == saving.last_writer     \* history: the process that replaced the session file last
\* directory
dir_files == directory.dir_files      \* the other files of the session directory: name -> content
listed == directory.listed            \* the sessions the latest `track list` reported
\* watcher
log_file == watcher.log_file          \* the bytes of the conversation log
appended == watcher.appended          \* history: how many entries the log's writer has begun
byte_offset == watcher.byte_offset    \* the watcher's byte_offset (behind its mutex)
fs_events == watcher.fs_events        \* the notifications waiting in the event channel
task_pc == watcher.task_pc            \* the background task: select, reading, sending, terminated
batch == watcher.batch                \* the entries the task is sending
channel == watcher.channel            \* the batches in the data channel (tx -> rx)
received == watcher.received          \* history: the entries the consumer has received, in order
rx_open == watcher.rx_open            \* the consumer still holds the receiver
stop_sent == watcher.stop_sent        \* WatcherHandle::stop() has sent the stop signal
read_log == watcher.read_log          \* history: the entries the task has read, in order

\* The variables of the track session and of its call log.
sessionVars == <<session_exists, steps, head, buffer_cache, seq_to_step,
                 step_counter, emitted, last, origin, skipped>>

\* The variables of a query in progress.
queryVars == <<query>>

\* The variables of concurrent writers and of the bytes of the session file.
writerVars == <<saving>>

\* The variables of the session directory and of its listing.
listVars == <<directory>>

\* The variables of the live watcher, its log and its consumer.
watcherVars == <<watcher>>

\* The variable of a library call of toolpath-claude.
convoVars == <<convo>>

\* What a call on the track session leaves alone.
otherVars == <<queryVars, writerVars, listVars, watcherVars, convoVars>>

\* What a query leaves alone, and what a concurrent writer leaves alone.
besidesQuery == <<sessionVars, writerVars, listVars, watcherVars, convoVars>>
besidesWriters == <<emitted, last, queryVars, listVars, watcherVars, convoVars>>
besidesWatcher == <<sessionVars, queryVars, writerVars, listVars, convoVars>>
besidesConvo == <<sessionVars, queryVars, writerVars, listVars, watcherVars>>

vars == <<sessionVars, otherVars>>

\* The record on disk (Path + TrackState), as load_session returns it.
disk == <<session_exists, steps, head, buffer_cache, seq_to_step, step_counter>>

-----------------------------------------------------------------------------
(* Bounds and input sets *)

\* The sequence numbers the caller uses are 0 .. MaxSeq.  Every Step is minted
\* at a sequence number not cached before, so step_counter never exceeds MaxSeq.
MaxSeq == 2

Seqs == 0 .. MaxSeq

\* The sequence numbers of the session whose caller hands them out in
\* increasing order are 0 .. MaxFreshSeq.
MaxFreshSeq == 3

FreshSeqs == 0 .. MaxFreshSeq

None == <<>>
Some(x) == <<x>>

\* Contents a caller of the open session passes.
Contents == { <<"A">>, <<"A", "B">> }

default_actor == "human:tester"
ActorOverrides == { None, Some("tool:formatter") }
TimeOverrides == { None, Some("2026-01-01T00:01:00Z") }
Intents == { "first intent" }
\* Intents passed in the session of record_step and note calls.
NoteIntents == { "First intent", "Updated intent" }
InheritFrom == { None } \cup { Some(s) : s \in Seqs }

-----------------------------------------------------------------------------
(* Pure helpers *)

Min(a, b) == IF a <= b THEN a ELSE b

\* Length of the longest common prefix of two line sequences.
PrefixLen(old, new) ==
    CHOOSE k \in 0 .. Min(Len(old), Len(new)) :
        /\ \A i \in 1 .. k : old[i] = new[i]
        /\ k = Min(Len(old), Len(new)) \/ old[k + 1] # new[k + 1]

\* Length of the longest common suffix that does not overlap the common prefix.
SuffixLen(old, new) ==
    LET p == PrefixLen(old, new)
        m == Min(Len(old), Len(new)) - p
    IN  CHOOSE k \in 0 .. m :
            /\ \A i \in 0 .. k - 1 : old[Len(old) - i] = new[Len(new) - i]
            /\ k = m \/ old[Len(old) - k] # new[Len(new) - k]

\* TextDiff::from_lines(old, new).unified_diff(): the changed lines between the
\* common prefix and the common suffix, deletions first ("-"), then insertions
\* ("+"), tagged with the line number they start at.  No hunk, no output.
UnifiedDiff(old, new) ==
    LET p == PrefixLen(old, new)
        s == SuffixLen(old, new)
        dels == [i \in 1 .. Len(old) - p - s |-> <<"-", p + i, old[p + i]>>]
        adds == [i \in 1 .. Len(new) - p - s |-> <<"+", p + i, new[p + i]>>]
    IN  dels \o adds

\* compute_diff: None when the unified diff is the empty string.
compute_diff(old, new) ==
    LET unified == UnifiedDiff(old, new)
    IN  IF unified = <<>> THEN None ELSE Some(unified)

\* Variant: format!("step-{}", n).
StepIdUnpadded(n) == "step-" \o ToString(n)

\* Variant: the counter padded to two digits.
StepIdTwoDigits(n) ==
    "step-" \o (IF n < 10 THEN "0" \o ToString(n) ELSE ToString(n))

\* format!("step-{:03}", n): zero-padded to at least three digits.
StepId(n) ==
    "step-" \o (IF n < 10 THEN "00" \o ToString(n)
                ELSE IF n < 100 THEN "0" \o ToString(n)
                ELSE ToString(n))

now_iso8601 == "2026-01-01T00:00:00Z"

\* unwrap_or_else on an Option.
UnwrapOr(opt, dflt) == IF opt = None THEN dflt ELSE opt[1]

\* Variant: a revisit recognised by the step mapping instead of the content cache.
IsRevisitByMapping(seq) == seq \in DOMAIN seq_to_step

\* Variant: no call is taken for a revisit.
IsRevisitNever(seq) == FALSE

\* state.buffer_cache.contains_key(&seq): the call is a revisit.
IsRevisit(seq) == seq \in DOMAIN buffer_cache

\* Variant: a missing parent read as empty content instead of an error.
ParentLookupOrEmpty(parent_seq) ==
    Some(IF parent_seq \in DOMAIN buffer_cache THEN buffer_cache[parent_seq] ELSE <<>>)

\* state.buffer_cache.get(&parent_seq): None makes record_step fail.
ParentLookup(parent_seq) ==
    IF parent_seq \in DOMAIN buffer_cache THEN Some(buffer_cache[parent_seq]) ELSE None

\* Variant: the content of a new seq is not cached.
CacheInsertNothing(seq, content) == buffer_cache

\* state.buffer_cache.insert(seq, content)
CacheInsert(seq, content) == (seq :> content) @@ buffer_cache

\* Variant: a missing entry read as "none".
MappingOrNone(seq) ==
    IF seq \in DOMAIN seq_to_step THEN seq_to_step[seq] ELSE "none"

\* Variant: the mapping is never propagated.
MappingAlwaysDefault(seq) == ""

\* state.seq_to_step.get(&seq).cloned().unwrap_or_default()
MappingOrDefault(seq) ==
    IF seq \in DOMAIN seq_to_step THEN seq_to_step[seq] ELSE ""

\* Variant: an empty-string entry is wired as a parent too.
WireParentAnyEntry(parent_seq) ==
    IF parent_seq \in DOMAIN seq_to_step THEN <<seq_to_step[parent_seq]>> ELSE <<>>

\* Variant: the new Step is wired to the current head.
WireParentToHead(parent_seq) ==
    IF head # "none" THEN <<head>> ELSE <<>>

\* The parents wired into a new Step: the step mapped at parent_seq, unless
\* there is no entry or the entry is the empty string (root state).
WireParent(parent_seq) ==
    IF parent_seq \in DOMAIN seq_to_step /\ seq_to_step[parent_seq] # ""
    THEN <<seq_to_step[parent_seq]>>
    ELSE <<>>

\* Variant: the parent is never wired.
NewStepNoParents(step_id, actor, timestamp, diff_text, parents) ==
    [id |-> step_id, parents |-> <<>>, actor |-> actor,
     timestamp |-> timestamp, change |-> diff_text, intent |-> None]

\* v1::Step::new(id, actor, timestamp).with_raw_change(file, diff) and the
\* optional with_parent; meta (intent) is None.
NewStep(step_id, actor, timestamp, diff_text, parents) ==
    [id |-> step_id, parents |-> parents, actor |-> actor,
     timestamp |-> timestamp, change |-> diff_text, intent |-> None]

\* Variant: head written without the zero padding of the step id.
NewHeadUnpadded(step_id) == "step-" \o ToString(step_counter + 1)

\* path_doc.path.head = step_id.clone()
NewHead(step_id) == step_id

-----------------------------------------------------------------------------
(* DAG query engine *)

\* step_map.get(id): the HashMap collected from steps keeps, for an id that
\* occurs twice, the Step collected last.
StepOf(all_steps, id) ==
    LET idx == { i \in 1 .. Len(all_steps) : all_steps[i].id = id }
    IN  IF idx = {} THEN None
        ELSE Some(all_steps[CHOOSE i \in idx : \A j \in idx : j <= i])

\* The while-let loop of ancestors: pop the top of the stack; an id inserted
\* for the first time that resolves to a Step pushes that Step's parents.
RECURSIVE AncestorsWalk(_, _, _)
AncestorsWalk(all_steps, stack, result) ==
    IF stack = <<>> THEN result
    ELSE LET id == stack[Len(stack)]
             rest == SubSeq(stack, 1, Len(stack) - 1)
             step == StepOf(all_steps, id)
         IN  IF id \notin result /\ step # None
             THEN AncestorsWalk(all_steps, rest \o step[1].parents, result \cup {id})
             ELSE AncestorsWalk(all_steps, rest, result \cup {id})

\* Variant: every Step counts as an ancestor of the head.
AncestorsEveryStep(all_steps, head_id) ==
    {head_id} \cup { all_steps[i].id : i \in 1 .. Len(all_steps) }

\* Variant: the parent chain is not followed.
AncestorsHeadOnly(all_steps, head_id) == {head_id}

\* Variant: only the first parent of a Step is followed.
AncestorsFirstParent(all_steps, head_id) ==
    LET first(all) ==
            [i \in 1 .. Len(all) |->
                [all[i] EXCEPT !.parents = IF @ = <<>> THEN <<>> ELSE <<@[1]>>]]
    IN  AncestorsWalk(first(all_steps), <<head_id>>, {})

ancestors(all_steps, head_id) == AncestorsWalk(all_steps, <<head_id>>, {})

\* Variant: the Steps no other Step names as a parent, the head excepted.
DeadEndsLeaves(all_steps, head_id) ==
    LET named == UNION { { all_steps[i].parents[k] : k \in DOMAIN all_steps[i].parents }
                         : i \in 1 .. Len(all_steps) }
        keep(s) == s.id \notin named /\ s.id # head_id
    IN  SelectSeq(all_steps, keep)

\* Variant: the dead ends listed newest first.
DeadEndsNewestFirst(all_steps, head_id) ==
    LET active == ancestors(all_steps, head_id)
        keep(s) == s.id \notin active
        dead == SelectSeq(all_steps, keep)
    IN  [i \in 1 .. Len(dead) |-> dead[Len(dead) + 1 - i]]

dead_ends(all_steps, head_id) ==
    LET active == ancestors(all_steps, head_id)
        keep(s) == s.id \notin active
    IN  SelectSeq(all_steps, keep)

-----------------------------------------------------------------------------
(* Results and the call log *)

Created(id) == [kind |-> "Created", id |-> id]
Skip == [kind |-> "Skip", id |-> ""]
Ok == [kind |-> "Ok", id |-> ""]
Err(msg) == [kind |-> "Err", id |-> msg]

\* A call as logged in `last`: the operation, the seq argument of a
\* record_step call (None for the other operations) and what the call returned.
Call(op, seq, result) == [op |-> op, seq |-> seq, result |-> result]

\* load_session fails: the file is missing.
LoadFails == ~session_exists

-----------------------------------------------------------------------------
(* The session file: a {"Path": ...} document with the TrackState in
   meta.track.  JSON objects are functions on their keys; a key whose value
   is skipped by serde is not in the domain. *)

session_id == "track-test-1"
file == "test.txt"
created_at == "2026-01-01T00:00:00Z"

\* PathMeta::default(): no title, no source, no extra key.
default_meta == [title |-> None, source |-> None, extra |-> <<>>]

\* The metas init_session gives a session: none, or one with a title or source.
SessionMetas ==
    { None,
      Some([default_meta EXCEPT !.title = Some("Session")]),
      Some([default_meta EXCEPT !.title = Some("Session"),
                                !.source = Some("editor")]) }

\* The bases init_session gives a session: none, or a uri with or without a ref.
SessionBases ==
    { None,
      Some([uri |-> "github:org/repo", ref_str |-> None]),
      Some([uri |-> "github:org/repo", ref_str |-> Some("abc123")]) }

\* The in-memory v1::Path of the session with the given base and meta.
PathDoc(base, meta) ==
    [id |-> session_id, base |-> base, head |-> head, steps |-> steps,
     meta |-> meta]

\* The in-memory TrackState of the session.
TrackStateNow ==
    [version |-> 1, file |-> file, default_actor |-> default_actor,
     buffer_cache |-> buffer_cache, seq_to_step |-> seq_to_step,
     step_counter |-> step_counter, created_at |-> created_at]

meta_is_empty(meta) ==
    /\ meta.title = None
    /\ meta.source = None
    /\ DOMAIN meta.extra = {}

\* A u64 map key as serde_json writes it (a decimal string) and reads it back.
Keys == Seqs \cup FreshSeqs
DecimalKey == [n \in Keys |-> ToString(n)]
KeyToJson(n) == DecimalKey[n]
KeyFromJson(k) == CHOOSE n \in Keys : DecimalKey[n] = k

\* HashMap<u64, String> to and from a JSON object.
MapToJson(m) ==
    [k \in { KeyToJson(n) : n \in DOMAIN m } |-> m[KeyFromJson(k)]]
MapFromJson(j) ==
    [n \in { KeyFromJson(k) : k \in DOMAIN j } |-> j[KeyToJson(n)]]

\* serde_json::to_value(state) and serde_json::from_value(track_value).
TrackToJson(state) ==
    [state EXCEPT !.buffer_cache = MapToJson(@), !.seq_to_step = MapToJson(@)]
TrackFromJson(j) ==
    [j EXCEPT !.buffer_cache = MapFromJson(@), !.seq_to_step = MapFromJson(@)]

\* PathMeta: title and source are skipped when None, extra is flattened.
MetaToJson(meta) ==
    LET keys == (IF meta.title # None THEN {"title"} ELSE {})
                \cup (IF meta.source # None THEN {"source"} ELSE {})
                \cup DOMAIN meta.extra
    IN [k \in keys |-> IF k = "title" /\ meta.title # None THEN meta.title[1]
                       ELSE IF k = "source" /\ meta.source # None THEN meta.source[1]
                       ELSE meta.extra[k]]
MetaFromJson(j) ==
    [title |-> IF "title" \in DOMAIN j THEN Some(j["title"]) ELSE None,
     source |-> IF "source" \in DOMAIN j THEN Some(j["source"]) ELSE None,
     extra |-> [k \in DOMAIN j \ {"title", "source"} |-> j[k]]]

\* Step: parents is skipped when empty, meta when None; meta holds the intent.
StepToJson(s) ==
    LET identity == [k \in {"id", "actor", "timestamp"}
                          \cup (IF s.parents # <<>> THEN {"parents"} ELSE {})
                     |-> IF k = "id" THEN s.id
                         ELSE IF k = "actor" THEN s.actor
                         ELSE IF k = "timestamp" THEN s.timestamp
                         ELSE s.parents]
    IN [k \in {"step", "change"} \cup (IF s.intent # None THEN {"meta"} ELSE {})
        |-> IF k = "step" THEN identity
            ELSE IF k = "change" THEN (file :> [raw |-> s.change])
            ELSE [intent |-> s.intent[1]]]
StepFromJson(j) ==
    [id |-> j["step"]["id"],
     parents |-> IF "parents" \in DOMAIN j["step"] THEN j["step"]["parents"]
                 ELSE <<>>,
     actor |-> j["step"]["actor"],
     timestamp |-> j["step"]["timestamp"],
     change |-> j["change"][file].raw,
     intent |-> IF "meta" \in DOMAIN j THEN Some(j["meta"].intent) ELSE None]

\* Base: ref_str is written as "ref" and skipped when None.
BaseToJson(base) ==
    [k \in {"uri"} \cup (IF base.ref_str # None THEN {"ref"} ELSE {})
     |-> IF k = "uri" THEN base.uri ELSE base.ref_str[1]]
BaseFromJson(j) ==
    [uri |-> j["uri"],
     ref_str |-> IF "ref" \in DOMAIN j THEN Some(j["ref"]) ELSE None]

\* v1::Path: path.base and meta are skipped when None.
PathToJson(doc) ==
    [k \in {"path", "steps"} \cup (IF doc.meta # None THEN {"meta"} ELSE {})
     |-> IF k = "path"
         THEN [i \in {"id", "head"} \cup (IF doc.base # None THEN {"base"} ELSE {})
               |-> IF i = "id" THEN doc.id
                   ELSE IF i = "head" THEN doc.head
                   ELSE BaseToJson(doc.base[1])]
         ELSE IF k = "steps"
         THEN [i \in 1 .. Len(doc.steps) |-> StepToJson(doc.steps[i])]
         ELSE MetaToJson(doc.meta[1])]
PathFromJson(j) ==
    [id |-> j["path"]["id"],
     base |-> IF "base" \in DOMAIN j["path"] THEN Some(BaseFromJson(j["path"]["base"]))
              ELSE None,
     head |-> j["path"]["head"],
     steps |-> [i \in 1 .. Len(j["steps"]) |-> StepFromJson(j["steps"][i])],
     meta |-> IF "meta" \in DOMAIN j THEN Some(MetaFromJson(j["meta"])) ELSE None]

\* save_session: the TrackState goes into meta.extra["track"] of a clone of
\* the Path (a default meta is made when there is none) and the clone is
\* written as a Path document.
save_session(doc, state) ==
    LET meta == IF doc.meta = None THEN default_meta ELSE doc.meta[1]
        with_track == [meta EXCEPT
                         !.extra = ("track" :> TrackToJson(state)) @@ @]
    IN [Path |-> PathToJson([doc EXCEPT !.meta = Some(with_track)])]

\* Variant: the track key is read but left in meta.extra.
LoadSessionKeepingTrack(data) ==
    LET path_doc == PathFromJson(data.Path)
    IN IF path_doc.meta = None \/ "track" \notin DOMAIN path_doc.meta[1].extra
       THEN Err("session file missing meta.track")
       ELSE [path_doc |-> path_doc,
             state |-> TrackFromJson(path_doc.meta[1].extra["track"])]

\* Variant: a meta left empty by the removal of track is kept.
LoadSessionKeepingEmptyMeta(data) ==
    LET path_doc == PathFromJson(data.Path)
    IN IF path_doc.meta = None \/ "track" \notin DOMAIN path_doc.meta[1].extra
       THEN Err("session file missing meta.track")
       ELSE LET meta == path_doc.meta[1]
                rest == [meta EXCEPT
                           !.extra = [k \in DOMAIN @ \ {"track"} |-> @[k]]]
            IN [path_doc |-> [path_doc EXCEPT !.meta = Some(rest)],
                state |-> TrackFromJson(meta.extra["track"])]

\* load_session: the Path document is parsed, meta.extra["track"] is removed
\* and parsed as the TrackState, and a meta that is now empty becomes None.
load_session(data) ==
    LET path_doc == PathFromJson(data.Path)
    IN IF path_doc.meta = None \/ "track" \notin DOMAIN path_doc.meta[1].extra
       THEN Err("session file missing meta.track")
       ELSE LET meta == path_doc.meta[1]
                rest == [meta EXCEPT
                           !.extra = [k \in DOMAIN @ \ {"track"} |-> @[k]]]
            IN [path_doc |-> [path_doc EXCEPT
                                !.meta = IF meta_is_empty(rest) THEN None
                                         ELSE Some(rest)],
                state |-> TrackFromJson(meta.extra["track"])]

\* The session file on disk: what the latest save_session wrote.
SessionFile(base, meta) == save_session(PathDoc(base, meta), TrackStateNow)

\* format_output(doc): the document as the JSON that is printed or written.
FormatOutput(doc) == [Path |-> PathToJson(doc)]

\* v1::Document::Path(path_doc): the Path in memory after load_session, for
\* the session made by make_session (no base, no meta).
Document == PathDoc(None, None)

-----------------------------------------------------------------------------
(* init_session: the state after `track init` with some initial content *)

\* No query is in progress.
QueryIdle == query = None

\* The processes that operate on the session at the same time.
Procs == {1, 2}

\* to_writer_pretty hands the record to the file in WriteCalls writes.
WriteCalls == 2

\* A process that has not started its operation.
IdleWriter ==
    [pc |-> "idle", seq |-> None, mem |-> None, result |-> None]

\* One process at a time operates on the session.
WritersIdle == saving = None

\* The session file is alone in its directory and no listing is made.
ListIdle == directory = None

\* No watcher was started.
WatcherIdle == watcher = None

\* No library call of toolpath-claude is made.
ConvoIdle == convo = None

\* Nothing but the track session is running.
OthersIdle == QueryIdle /\ WritersIdle /\ ListIdle /\ WatcherIdle /\ ConvoIdle

init_session(content) ==
    /\ session_exists = TRUE
    /\ steps = <<>>
    /\ head = "none"
    /\ buffer_cache = (0 :> content)
    /\ seq_to_step = <<>>
    /\ step_counter = 0
    /\ emitted = None
    /\ last = Call("init", None, Ok)
    /\ origin = <<>>
    /\ skipped = <<>>

Init ==
    /\ \E content \in Contents : init_session(content)
    /\ OthersIdle

-----------------------------------------------------------------------------
(* record_step *)

record_step(content, seq, parent_seq, actor_override, time_override) ==
    LET call(result) == Call("step", Some(seq), result)
    IN
    /\ emitted' = None
    /\ IF LoadFails THEN
          /\ last' = call(Err("failed to read session file"))
          /\ UNCHANGED <<disk, origin, skipped>>
       ELSE IF IsRevisit(seq) THEN
          /\ last' = call(Skip)
          /\ UNCHANGED <<disk, origin, skipped>>
       ELSE IF ParentLookup(parent_seq) = None THEN
          /\ last' = call(Err("parent seq not found in buffer cache"))
          /\ UNCHANGED <<disk, origin, skipped>>
       ELSE
          LET parent_content == ParentLookup(parent_seq)[1]
              diff == compute_diff(parent_content, content)
              had_mapping == parent_seq \in DOMAIN seq_to_step
          IN
          /\ buffer_cache' = CacheInsert(seq, content)
          /\ IF diff # None THEN
                LET counter == step_counter + 1
                    step_id == StepId(counter)
                    actor == UnwrapOr(actor_override, default_actor)
                    timestamp == UnwrapOr(time_override, now_iso8601)
                    step == NewStep(step_id, actor, timestamp, diff[1],
                                    WireParent(parent_seq))
                IN  /\ step_counter' = counter
                    /\ steps' = Append(steps, step)
                    /\ seq_to_step' = (seq :> step_id) @@ seq_to_step
                    /\ head' = NewHead(step_id)
                    /\ last' = call(Created(step_id))
                    /\ origin' = Append(origin, [seq |-> seq, parent_seq |-> parent_seq,
                                                 had_mapping |-> had_mapping])
                    /\ UNCHANGED skipped
             ELSE
                /\ seq_to_step' = (seq :> MappingOrDefault(parent_seq)) @@ seq_to_step
                /\ last' = call(Skip)
                /\ skipped' = (seq :> [parent_seq |-> parent_seq,
                                       had_mapping |-> had_mapping]) @@ skipped
                /\ UNCHANGED <<steps, head, step_counter, origin>>
          /\ UNCHANGED session_exists

\* The calls of the open session give no overrides: the actor is the default
\* actor and the timestamp the clock's.
Step ==
    /\ \E content \in Contents, seq \in Seqs, parent_seq \in Seqs :
           record_step(content, seq, parent_seq, None, None)
    /\ UNCHANGED otherVars

-----------------------------------------------------------------------------
(* run_visit *)

\* Variant: the mapping is copied from inherit_from even when seq has an entry.
RunVisitOverwriting(content, seq, inherit_from) ==
    LET call(result) == Call("visit", None, result)
    IN
    /\ emitted' = None
    /\ UNCHANGED <<origin, skipped>>
    /\ IF LoadFails THEN
          /\ last' = call(Err("failed to read session file"))
          /\ UNCHANGED disk
       ELSE
          /\ buffer_cache' = IF seq \notin DOMAIN buffer_cache
                             THEN (seq :> content) @@ buffer_cache
                             ELSE buffer_cache
          /\ seq_to_step' = IF inherit_from # None
                            THEN (seq :> MappingOrDefault(inherit_from[1])) @@ seq_to_step
                            ELSE seq_to_step
          /\ last' = call(Ok)
          /\ UNCHANGED <<session_exists, steps, head, step_counter>>

run_visit(content, seq, inherit_from) ==
    LET call(result) == Call("visit", None, result)
    IN
    /\ emitted' = None
    /\ UNCHANGED <<origin, skipped>>
    /\ IF LoadFails THEN
          /\ last' = call(Err("failed to read session file"))
          /\ UNCHANGED disk
       ELSE
          /\ buffer_cache' = IF seq \notin DOMAIN buffer_cache
                             THEN (seq :> content) @@ buffer_cache
                             ELSE buffer_cache
          /\ seq_to_step' = IF seq \notin DOMAIN seq_to_step /\ inherit_from # None
                            THEN (seq :> MappingOrDefault(inherit_from[1])) @@ seq_to_step
                            ELSE seq_to_step
          /\ last' = call(Ok)
          /\ UNCHANGED <<session_exists, steps, head, step_counter>>

Visit ==
    /\ \E content \in Contents, seq \in Seqs, inherit_from \in InheritFrom :
           run_visit(content, seq, inherit_from)
    /\ UNCHANGED otherVars

-----------------------------------------------------------------------------
(* run_note *)

\* steps.iter_mut().find(|s| s.step.id == head_id): index of the first match, 0 if none.
FindStep(head_id) ==
    IF \E i \in 1 .. Len(steps) : steps[i].id = head_id
    THEN CHOOSE i \in 1 .. Len(steps) :
            /\ steps[i].id = head_id
            /\ \A j \in 1 .. i - 1 : steps[j].id # head_id
    ELSE 0

\* Variant: an intent already set is kept (get_or_insert on the intent).
RunNoteKeepingFirst(intent) ==
    LET call(result) == Call("note", None, result)
    IN
    /\ emitted' = None
    /\ UNCHANGED <<origin, skipped>>
    /\ IF LoadFails THEN
          /\ last' = call(Err("failed to read session file"))
          /\ UNCHANGED disk
       ELSE IF head = "none" THEN
          /\ last' = call(Err("no head step to annotate"))
          /\ UNCHANGED disk
       ELSE IF FindStep(head) = 0 THEN
          /\ last' = call(Err("head step not found in session"))
          /\ UNCHANGED disk
       ELSE
          /\ steps' = IF steps[FindStep(head)].intent = None
                      THEN [steps EXCEPT ![FindStep(head)].intent = Some(intent)]
                      ELSE steps
          /\ last' = call(Ok)
          /\ UNCHANGED <<session_exists, head, buffer_cache, seq_to_step, step_counter>>

\* Variant: no test for the head "none" before the Step is looked up.
RunNoteWithoutHeadTest(intent) ==
    LET call(result) == Call("note", None, result)
    IN
    /\ emitted' = None
    /\ UNCHANGED <<origin, skipped>>
    /\ IF LoadFails THEN
          /\ last' = call(Err("failed to read session file"))
          /\ UNCHANGED disk
       ELSE IF FindStep(head) = 0 THEN
          /\ last' = call(Err("head step not found in session"))
          /\ UNCHANGED disk
       ELSE
          /\ steps' = [steps EXCEPT ![FindStep(head)].intent = Some(intent)]
          /\ last' = call(Ok)
          /\ UNCHANGED <<session_exists, head, buffer_cache, seq_to_step, step_counter>>

run_note(intent) ==
    LET call(result) == Call("note", None, result)
    IN
    /\ emitted' = None
    /\ UNCHANGED <<origin, skipped>>
    /\ IF LoadFails THEN
          /\ last' = call(Err("failed to read session file"))
          /\ UNCHANGED disk
       ELSE IF head = "none" THEN
          /\ last' = call(Err("no head step to annotate"))
          /\ UNCHANGED disk
       ELSE IF FindStep(head) = 0 THEN
          /\ last' = call(Err("head step not found in session"))
          /\ UNCHANGED disk
       ELSE
          /\ steps' = [steps EXCEPT ![FindStep(head)].intent = Some(intent)]
          /\ last' = call(Ok)
          /\ UNCHANGED <<session_exists, head, buffer_cache, seq_to_step, step_counter>>

Note ==
    /\ \E intent \in Intents : run_note(intent)
    /\ UNCHANGED otherVars

-----------------------------------------------------------------------------
(* run_export and run_close *)

run_export ==
    LET call(result) == Call("export", None, result)
    IN
    /\ UNCHANGED <<disk, origin, skipped>>
    /\ IF LoadFails THEN
          /\ last' = call(Err("failed to read session file"))
          /\ emitted' = None
       ELSE
          /\ emitted' = Some(Document)
          /\ last' = call(Ok)

Export == run_export /\ UNCHANGED otherVars

\* std::fs::remove_file succeeds.  A removed session has no record left: the
\* fields it held, and the history of that record, are cleared.
RemoveSessionFile ==
    /\ session_exists' = FALSE
    /\ steps' = <<>>
    /\ head' = ""
    /\ buffer_cache' = <<>>
    /\ seq_to_step' = <<>>
    /\ step_counter' = 0
    /\ origin' = <<>>
    /\ skipped' = <<>>

\* Variant: a close that reports success and leaves the session file.
RunCloseLeavingFile(write_ok, remove_ok) ==
    LET call(result) == Call("close", None, result)
    IN
    IF LoadFails THEN
          /\ last' = call(Err("failed to read session file"))
          /\ emitted' = None
          /\ UNCHANGED <<disk, origin, skipped>>
       ELSE IF ~write_ok THEN
          /\ last' = call(Err("failed to write to output"))
          /\ emitted' = None
          /\ UNCHANGED <<disk, origin, skipped>>
       ELSE
          /\ emitted' = Some(Document)
          /\ last' = call(IF remove_ok THEN Ok
                          ELSE Err("failed to remove session file"))
          /\ UNCHANGED <<disk, origin, skipped>>

\* Variant: the session file is removed before the document is written.
RunCloseRemovingFirst(write_ok, remove_ok) ==
    LET call(result) == Call("close", None, result)
    IN
    IF LoadFails THEN
          /\ last' = call(Err("failed to read session file"))
          /\ emitted' = None
          /\ UNCHANGED <<disk, origin, skipped>>
       ELSE IF ~remove_ok THEN
          /\ last' = call(Err("failed to remove session file"))
          /\ emitted' = None
          /\ UNCHANGED <<disk, origin, skipped>>
       ELSE
          /\ RemoveSessionFile
          /\ IF write_ok THEN
                /\ emitted' = Some(Document)
                /\ last' = call(Ok)
             ELSE
                /\ emitted' = None
                /\ last' = call(Err("failed to write to output"))

\* write_ok: whether the document is written (std::fs::write to --output
\* succeeds; a println always does).  remove_ok: whether std::fs::remove_file
\* succeeds.
run_close(write_ok, remove_ok) ==
    LET call(result) == Call("close", None, result)
    IN
    IF LoadFails THEN
          /\ last' = call(Err("failed to read session file"))
          /\ emitted' = None
          /\ UNCHANGED <<disk, origin, skipped>>
       ELSE IF ~write_ok THEN
          /\ last' = call(Err("failed to write to output"))
          /\ emitted' = None
          /\ UNCHANGED <<disk, origin, skipped>>
       ELSE
          /\ emitted' = Some(Document)
          /\ IF remove_ok THEN
                /\ RemoveSessionFile
                /\ last' = call(Ok)
             ELSE
                /\ last' = call(Err("failed to remove session file"))
                /\ UNCHANGED <<disk, origin, skipped>>

Close ==
    /\ \E write_ok, remove_ok \in BOOLEAN : run_close(write_ok, remove_ok)
    /\ UNCHANGED otherVars

-----------------------------------------------------------------------------
(* The single-writer session: any call in any order *)

Next == Step \/ Visit \/ Note \/ Export \/ Close

Spec == Init /\ [][Next]_vars

-----------------------------------------------------------------------------
(* The undo-then-branch scenario: init with "A", then four record_step calls
   in a fixed order, each with any actor and time override *)

Script ==
    << [content |-> <<"B">>, seq |-> 1, parent_seq |-> 0],
       [content |-> <<"C">>, seq |-> 2, parent_seq |-> 1],
       [content |-> <<"B">>, seq |-> 3, parent_seq |-> 2],
       [content |-> <<"D">>, seq |-> 4, parent_seq |-> 1] >>

InitScenario == init_session(<<"A">>) /\ OthersIdle

\* The k-th call of the script is due when exactly the seqs below its own are cached.
ScriptedStep ==
    \E k \in 1 .. Len(Script), actor \in ActorOverrides, time \in TimeOverrides :
        /\ DOMAIN buffer_cache = 0 .. Script[k].seq - 1
        /\ record_step(Script[k].content, Script[k].seq, Script[k].parent_seq, actor, time)
        /\ UNCHANGED otherVars

NextScenario == ScriptedStep

SpecScenario == InitScenario /\ [][NextScenario]_vars

-----------------------------------------------------------------------------
(* record_step as a function of the loaded session record *)

\* The record load_session returns, with the sequences that created its Steps.
SessionRecord ==
    [steps |-> steps, head |-> head, buffer_cache |-> buffer_cache,
     seq_to_step |-> seq_to_step, step_counter |-> step_counter,
     made |-> [i \in 1 .. Len(origin) |-> origin[i].seq]]

\* Variant: the new Step is parented on the current head instead of the Step
\* mapped at parent_seq.
RecordStepOnHead(rec, content, seq, parent_seq) ==
    LET diff == compute_diff(rec.buffer_cache[parent_seq], content)
        cache == (seq :> content) @@ rec.buffer_cache
        step_id == StepId(rec.step_counter + 1)
        parents == IF rec.head # "none" THEN <<rec.head>> ELSE <<>>
    IN  IF diff # None
        THEN [steps |-> Append(rec.steps,
                               NewStep(step_id, default_actor, now_iso8601, diff[1], parents)),
              head |-> step_id,
              buffer_cache |-> cache,
              seq_to_step |-> (seq :> step_id) @@ rec.seq_to_step,
              step_counter |-> rec.step_counter + 1,
              made |-> Append(rec.made, seq)]
        ELSE [rec EXCEPT !.buffer_cache = cache,
                         !.seq_to_step = (seq :> rec.head) @@ rec.seq_to_step]

\* What a record_step call without overrides that passes the revisit test and
\* the parent lookup (seq not cached, parent_seq cached) saves, given the
\* record it loaded.
RecordStepOn(rec, content, seq, parent_seq) ==
    LET diff == compute_diff(rec.buffer_cache[parent_seq], content)
        cache == (seq :> content) @@ rec.buffer_cache
        mapped == IF parent_seq \in DOMAIN rec.seq_to_step
                  THEN rec.seq_to_step[parent_seq] ELSE ""
        step_id == StepId(rec.step_counter + 1)
        parents == IF mapped # "" THEN <<mapped>> ELSE <<>>
    IN  IF diff # None
        THEN [steps |-> Append(rec.steps,
                               NewStep(step_id, default_actor, now_iso8601, diff[1], parents)),
              head |-> step_id,
              buffer_cache |-> cache,
              seq_to_step |-> (seq :> step_id) @@ rec.seq_to_step,
              step_counter |-> rec.step_counter + 1,
              made |-> Append(rec.made, seq)]
        ELSE [rec EXCEPT !.buffer_cache = cache,
                         !.seq_to_step = (seq :> mapped) @@ rec.seq_to_step]

-----------------------------------------------------------------------------
(* A session built with init and record_step only *)

NextRecordOnly == Step

SpecRecordOnly == Init /\ [][NextRecordOnly]_vars

-----------------------------------------------------------------------------
(* A session whose caller numbers its snapshots in increasing order: each
   call is a record_step or a visit at the next sequence number *)

\* The next sequence number: the sequences cached so far are 0 .. NextSeq - 1.
NextSeq == Cardinality(DOMAIN buffer_cache)

StepFresh ==
    \E content \in Contents, parent_seq \in FreshSeqs :
        /\ NextSeq <= MaxFreshSeq
        /\ record_step(content, NextSeq, parent_seq, None, None)
        /\ UNCHANGED otherVars

VisitFresh ==
    \E content \in Contents, inherit_from \in { None } \cup { Some(a) : a \in FreshSeqs } :
        /\ NextSeq <= MaxFreshSeq
        /\ run_visit(content, NextSeq, inherit_from)
        /\ UNCHANGED otherVars

NextFresh == StepFresh \/ VisitFresh

SpecFresh == Init /\ [][NextFresh]_vars

-----------------------------------------------------------------------------
(* A session of record_step calls at increasing sequence numbers, each Step
   annotated any number of times *)

NoteEither ==
    /\ \E intent \in NoteIntents : run_note(intent)
    /\ UNCHANGED otherVars

NextNotes == StepFresh \/ NoteEither

SpecNotes == Init /\ [][NextNotes]_vars

-----------------------------------------------------------------------------
(* Properties of record_step in the open session *)

\* The latest call was a record_step call.
StepCall == last.op = "step"

\* C1: a record_step call whose seq is already a key of the content cache
\* returns Skip and leaves the whole on-disk record (steps, head, content
\* cache, seq->step mapping, step counter) as it was, whatever content and
\* parent_seq (cached or not) the call passes, and with any actor and time
\* override the call makes the same transition.
C1_RevisitMutatesNothing ==
    [][( /\ last'.op = "step"
         /\ session_exists
         /\ last'.seq[1] \in DOMAIN buffer_cache )
       => ( /\ last'.result = Skip
            /\ UNCHANGED disk
            /\ \A actor \in ActorOverrides, time \in TimeOverrides :
                   \E content \in Contents, parent_seq \in Seqs :
                       record_step(content, last'.seq[1], parent_seq, actor, time) )]_vars

\* A revisit has just been skipped: of a seq that had created a Step, in a
\* session where some seq is still uncached (so the calls compared include
\* revisits whose parent_seq is not cached).
C1_Witness ==
    /\ session_exists
    /\ StepCall
    /\ last.result = Skip
    /\ \E i \in 1 .. Len(origin) : origin[i].seq = last.seq[1]
    /\ DOMAIN buffer_cache # Seqs

\* C2: head is "none" or the id of a Step present in steps, in every state of
\* a session that any sequence of step, visit, note and export calls reaches.
C2_HeadIsNoneOrStep ==
    session_exists =>
        \/ head = "none"
        \/ \E i \in 1 .. Len(steps) : steps[i].id = head

\* Two Steps exist, the head is not "none", and a visit, note or export was
\* the latest call.
C2_Witness ==
    /\ session_exists
    /\ Len(steps) >= 2
    /\ head # "none"
    /\ last.op \in {"visit", "note", "export"}

\* C3: every Step has at most one parent, and each parent id is the id of a
\* Step at an earlier position of steps.
C3_ParentsResolveEarlier ==
    session_exists =>
        \A i \in 1 .. Len(steps) :
            /\ Len(steps[i].parents) <= 1
            /\ \A k \in 1 .. Len(steps[i].parents) :
                   \E j \in 1 .. i - 1 : steps[j].id = steps[i].parents[k]

\* A Step has a parent although no Step was created at its parent_seq: the
\* mapping of that parent_seq is a copy (visit with inherit_from, or an
\* empty-diff skip).
C3_Witness ==
    /\ session_exists
    /\ \E i \in 1 .. Len(steps) :
           /\ steps[i].parents # <<>>
           /\ \A j \in 1 .. Len(origin) : origin[j].seq # origin[i].parent_seq

\* The transition is a record_step call, on an existing session, whose seq is
\* not cached yet.
NewSeqCall ==
    /\ last'.op = "step"
    /\ session_exists
    /\ last'.seq[1] \notin DOMAIN buffer_cache

\* C4: record_step with a seq not yet cached, a cached parent_seq and content
\* whose diff against the content cached at parent_seq is non-empty adds one
\* to the step counter, appends exactly one Step whose id is minted from the
\* new counter value and whose parents are [mapping(parent_seq)] when that
\* entry exists and is non-empty and [] otherwise, caches the content at seq,
\* sets mapping(seq) and head to the new id and returns Created(new id).
C4_NonEmptyDiffCreatesStep ==
    [][NewSeqCall =>
        \A content \in Contents, parent_seq \in DOMAIN buffer_cache :
            ( /\ compute_diff(buffer_cache[parent_seq], content) # None
              /\ record_step(content, last'.seq[1], parent_seq, None, None) )
            => LET seq == last'.seq[1]
                   new_id == StepId(step_counter + 1)
                   new_step == steps'[Len(steps')]
               IN  /\ step_counter' = step_counter + 1
                   /\ Len(steps') = Len(steps) + 1
                   /\ SubSeq(steps', 1, Len(steps)) = steps
                   /\ new_step.id = new_id
                   /\ new_step.parents =
                          IF parent_seq \in DOMAIN seq_to_step /\ seq_to_step[parent_seq] # ""
                          THEN <<seq_to_step[parent_seq]>>
                          ELSE <<>>
                   /\ buffer_cache' = (seq :> content) @@ buffer_cache
                   /\ seq_to_step' = (seq :> new_id) @@ seq_to_step
                   /\ head' = new_id
                   /\ last'.result = Created(new_id)]_vars

\* The newest Step was just created as the child of an existing Step, and an
\* earlier root Step exists as well (both parent shapes have occurred).
C4_Witness ==
    /\ session_exists
    /\ StepCall
    /\ Len(steps) >= 2
    /\ last.result = Created(steps[Len(steps)].id)
    /\ steps[Len(steps)].parents # <<>>
    /\ steps[1].parents = <<>>

\* What an empty-diff record_step call does at once: Skip, no Step, head and
\* counter as before, the content cached at seq, mapping(seq) a copy of
\* mapping(parent_seq) or the empty string.
C5_SkipEffects ==
    NewSeqCall =>
        \A parent_seq \in DOMAIN buffer_cache :
            record_step(buffer_cache[parent_seq], last'.seq[1], parent_seq, None, None)
            => LET seq == last'.seq[1]
               IN  /\ last'.result = Skip
                   /\ steps' = steps
                   /\ head' = head
                   /\ step_counter' = step_counter
                   /\ buffer_cache' = (seq :> buffer_cache[parent_seq]) @@ buffer_cache
                   /\ seq_to_step' =
                          (seq :> (IF parent_seq \in DOMAIN seq_to_step
                                   THEN seq_to_step[parent_seq] ELSE "")) @@ seq_to_step

\* C5 as stated: an empty-diff record_step call returns Skip, appends no Step,
\* leaves head and the counter alone, caches the content and copies
\* mapping(parent_seq) (or the empty string) to mapping(seq); and from then on
\* a Step created with parent_seq = seq gets the same parents as one created
\* with the original parent_seq.
C5_Original_SameParentsEverAfter ==
    /\ [][C5_SkipEffects]_vars
    /\ [](session_exists =>
            \A seq \in DOMAIN skipped :
                WireParent(seq) = WireParent(skipped[seq].parent_seq))

\* C5 (amended): the effects of the call are as stated; a Step later created
\* with parent_seq = seq gets the same parents as one created with the
\* original parent_seq, except when the original parent_seq had no mapping
\* entry at the time of the call and has been given a non-empty one since
\* (by visit with inherit_from).
C5_EmptyDiffSkipPropagatesMapping ==
    /\ [][C5_SkipEffects]_vars
    /\ [](session_exists =>
            \A seq \in DOMAIN skipped :
                LET parent_seq == skipped[seq].parent_seq
                IN  \/ WireParent(seq) = WireParent(parent_seq)
                    \/ /\ ~skipped[seq].had_mapping
                       /\ WireParent(parent_seq) # <<>>)

\* A seq cached by an empty-diff skip maps to a Step: a Step created from it
\* gets that Step as its parent.
C5_Witness ==
    /\ session_exists
    /\ \E seq \in DOMAIN skipped :
           /\ skipped[seq].had_mapping
           /\ WireParent(seq) # <<>>
           /\ WireParent(seq) = WireParent(skipped[seq].parent_seq)

\* C6: record_step with a seq not cached and a parent_seq not cached fails
\* with the unknown-parent error and changes nothing: seq stays uncached, no
\* Step is appended, head, mapping and counter are as before.
C6_UnknownParentFailsCleanly ==
    [][NewSeqCall =>
        \A content \in Contents, parent_seq \in Seqs \ DOMAIN buffer_cache :
            record_step(content, last'.seq[1], parent_seq, None, None)
            => ( /\ last'.result = Err("parent seq not found in buffer cache")
                 /\ last'.seq[1] \notin DOMAIN buffer_cache'
                 /\ UNCHANGED disk )]_vars

\* A record_step call has just failed on its parent_seq in a session that
\* already holds a Step.
C6_Witness ==
    /\ session_exists
    /\ StepCall
    /\ last.result = Err("parent seq not found in buffer cache")
    /\ last.seq[1] \notin DOMAIN buffer_cache
    /\ Len(steps) >= 1

\* What holds of a record_step call that creates a Step at parent_seq when
\* steps[i] was created at the same parent_seq: the call returns Created, both
\* Steps have the same parents, the new Step is the head and steps[i] is one
\* of its dead ends.
ForksFrom(i, parent_seq) ==
    LET second == steps'[Len(steps')]
        dead == dead_ends(steps', second.id)
    IN  /\ last'.result = Created(second.id)
        /\ Len(steps') = Len(steps) + 1
        /\ second.parents = steps[i].parents
        /\ head' = second.id
        /\ \E d \in 1 .. Len(dead) : dead[d] = steps[i]

C8_Original_SecondCallAlwaysSkips ==
    [][( /\ session_exists
         /\ StepCall
         /\ last'.op = "step"
         /\ last'.seq = last.seq )
       => ( /\ last'.result = Skip
            /\ steps' = steps
            /\ head' = head )]_vars

\* C8 (amended): when the first of the two calls returned Created or Skip,
\* the second call returns Skip and leaves steps and head as the first call
\* left them.
C8_RepeatedSeqSkips ==
    [][( /\ session_exists
         /\ StepCall
         /\ last.result.kind \in {"Created", "Skip"}
         /\ last'.op = "step"
         /\ last'.seq = last.seq )
       => ( /\ last'.result = Skip
            /\ steps' = steps
            /\ head' = head )]_vars

\* The seq that created the newest Step, which is the head, has been passed
\* to record_step again and the call was skipped.
C8_Witness ==
    /\ session_exists
    /\ StepCall
    /\ last.result = Skip
    /\ Len(steps) >= 1
    /\ origin[Len(origin)].seq = last.seq[1]
    /\ head = steps[Len(steps)].id

-----------------------------------------------------------------------------
(* Properties of the undo-then-branch scenario *)

\* The latest call was the record_step call with this seq.
After(seq) == last.op = "step" /\ last.seq = Some(seq)

StepIds(step_list) == [i \in 1 .. Len(step_list) |-> step_list[i].id]

\* C9 as stated: after init(A), step(B,1,0) and step(C,2,1), the call
\* step(B, seq=3, parent_seq=2) returns Skip and appends no Step.
C9_Original_UndoUnderNewSeqSkips ==
    After(3) => ( /\ last.result = Skip
                  /\ Len(steps) = 2 )

\* C9 (amended): that call returns Created("step-003") and appends a third
\* Step, the diff from C back to B, with parents ["step-002"], which becomes
\* the head.
C9_UndoUnderNewSeqCreatesStep ==
    After(3) => ( /\ last.result = Created("step-003")
                  /\ StepIds(steps) = <<"step-001", "step-002", "step-003">>
                  /\ steps[3].parents = <<"step-002">>
                  /\ steps[3].change = <<<<"-", 1, "C">>, <<"+", 1, "B">>>>
                  /\ head = "step-003" )

\* The third call of the scenario has just returned, made with an actor
\* override.
C9_Witness ==
    /\ After(3)
    /\ Len(steps) = 3
    /\ steps[3].actor = "tool:formatter"

\* C10 as stated: the following call step(D, seq=4, parent_seq=1) returns
\* Created("step-003"), the new Step is the third of steps with parents
\* ["step-001"], and dead_ends(steps, "step-003") is exactly [step-002].
C10_Original_BranchIsThirdStep ==
    After(4) => ( /\ last.result = Created("step-003")
                  /\ Len(steps) = 3
                  /\ steps[3].parents = <<"step-001">>
                  /\ StepIds(dead_ends(steps, "step-003")) = <<"step-002">> )

\* C10 (amended): that call returns Created("step-004"), the new Step is the
\* fourth of steps with parents ["step-001"], and dead_ends(steps, "step-004")
\* is exactly [step-002, step-003], in that order.
C10_BranchIsFourthStep ==
    After(4) => ( /\ last.result = Created("step-004")
                  /\ Len(steps) = 4
                  /\ steps[4].id = "step-004"
                  /\ steps[4].parents = <<"step-001">>
                  /\ head = "step-004"
                  /\ StepIds(dead_ends(steps, "step-004")) = <<"step-002", "step-003">> )

\* The fourth call of the scenario has just returned and created a Step.
C10_Witness ==
    /\ After(4)
    /\ Len(steps) = 4
    /\ last.result.kind = "Created"

-----------------------------------------------------------------------------
(* Properties of a session built with init and record_step only *)

\* The parent_seq of the record_step call that cached seq (seq # 0).
ParentSeqOf(seq) ==
    IF \E i \in 1 .. Len(origin) : origin[i].seq = seq
    THEN origin[CHOOSE i \in 1 .. Len(origin) : origin[i].seq = seq].parent_seq
    ELSE skipped[seq].parent_seq

\* The sequences on the parent_seq chain from seq back to sequence 0.
RECURSIVE SeqChain(_)
SeqChain(seq) ==
    IF seq = 0 THEN {0} ELSE {seq} \cup SeqChain(ParentSeqOf(seq))

\* The ids of the Steps created at the sequences of a set.
CreatedAt(seqs) ==
    { steps[i].id : i \in { j \in 1 .. Len(origin) : origin[j].seq \in seqs } }

\* C11: in a session built with init and record_step only, whenever head names
\* a Step, ancestors(steps, head) is the set of ids of the Steps created at
\* the sequences on the parent_seq chain from the sequence that created head
\* back to sequence 0; skipped sequences on the chain contribute no id.
C11_AncestorsAreCreatedChain ==
    (session_exists /\ head # "none") =>
        \E i \in 1 .. Len(steps) :
            /\ steps[i].id = head
            /\ ancestors(steps, head) = CreatedAt(SeqChain(origin[i].seq))

\* The chain of the head passes through a sequence that was skipped for an
\* empty diff, so the head Step is its only ancestor.
C11_Witness ==
    /\ session_exists
    /\ head # "none"
    /\ \E i \in 1 .. Len(steps) :
           /\ steps[i].id = head
           /\ \E s \in SeqChain(origin[i].seq) : s \in DOMAIN skipped
           /\ ancestors(steps, head) = {head}

-----------------------------------------------------------------------------
(* Order of two record_step calls *)

\* The sequence that created the Step with this id in a record.
MadeAt(rec, id) ==
    rec.made[CHOOSE i \in 1 .. Len(rec.steps) : rec.steps[i].id = id]

\* What does not name a Step id: the content cache, the sequences that
\* created a Step, and for each of them the sequences of its parent Steps.
Shape(rec) ==
    [cache |-> rec.buffer_cache,
     creators |-> { rec.made[i] : i \in 1 .. Len(rec.made) },
     parent_seqs |-> UNION { { <<rec.made[i], MadeAt(rec, rec.steps[i].parents[k])>> :
                                   k \in DOMAIN rec.steps[i].parents } :
                                 i \in 1 .. Len(rec.steps) }]

\* The record after the call (c1, s1, p1) followed by the call (c2, s2, p2).
InOrder(rec, c1, s1, p1, c2, s2, p2) ==
    RecordStepOn(RecordStepOn(rec, c1, s1, p1), c2, s2, p2)

\* Every record_step transition that caches a new seq saves what RecordStepOn
\* computes from the record it loaded.
SavesRecordStepOn ==
    (NewSeqCall /\ last'.result.kind # "Err") =>
        \E content \in Contents, parent_seq \in DOMAIN buffer_cache :
            SessionRecord' = RecordStepOn(SessionRecord, content, last'.seq[1], parent_seq)

\* From the current record, any two record_step calls with distinct uncached
\* seqs and cached parent_seqs give the same shape in either order.
OrdersAgree ==
    session_exists =>
        \A s1 \in Seqs \ DOMAIN buffer_cache :
            \A s2 \in { s \in Seqs \ DOMAIN buffer_cache : s > s1 } :
                \A p1 \in DOMAIN buffer_cache, p2 \in DOMAIN buffer_cache,
                   c1 \in Contents, c2 \in Contents :
                    LET ab == InOrder(SessionRecord, c1, s1, p1, c2, s2, p2)
                        ba == InOrder(SessionRecord, c2, s2, p2, c1, s1, p1)
                    IN  /\ Shape(ab) = Shape(ba)
                        /\ ab.step_counter = ba.step_counter

-----------------------------------------------------------------------------
(* Properties of visit *)

\* The keys a transition adds to the content cache and to the mapping.
NewCacheKeys == DOMAIN buffer_cache' \ DOMAIN buffer_cache
NewMappingKeys == DOMAIN seq_to_step' \ DOMAIN seq_to_step

\* C13: visit writes the content cache only at a seq that is not cached and
\* the mapping only at a seq that has no entry: every existing cache entry
\* and every existing mapping entry is the same after the call, what is added
\* is at most one cache key and one mapping key, both at the one visited seq,
\* and steps, head and the step counter are unchanged.
C13_VisitFirstWriterWins ==
    [][( /\ last'.op = "visit"
         /\ session_exists )
       => ( /\ \A s \in DOMAIN buffer_cache :
                   s \in DOMAIN buffer_cache' /\ buffer_cache'[s] = buffer_cache[s]
            /\ \A s \in DOMAIN seq_to_step :
                   s \in DOMAIN seq_to_step' /\ seq_to_step'[s] = seq_to_step[s]
            /\ Cardinality(NewCacheKeys \cup NewMappingKeys) <= 1
            /\ UNCHANGED <<session_exists, steps, head, step_counter>> )]_vars

\* A visit has just returned in a session where a sequence that created no
\* Step and was not skipped maps to a Step (an entry written by visit), next
\* to the entry of the sequence that created that Step.
C13_Witness ==
    /\ session_exists
    /\ last.op = "visit"
    /\ Len(steps) >= 1
    /\ \E s \in DOMAIN seq_to_step :
           /\ seq_to_step[s] # ""
           /\ s \notin DOMAIN skipped
           /\ \A i \in 1 .. Len(origin) : origin[i].seq # s

\* The sequences cached by visit: cached, not the initial one, and neither
\* created nor skipped by record_step.
VisitedSeqs ==
    { s \in DOMAIN buffer_cache \ {0} :
          /\ s \notin DOMAIN skipped
          /\ \A i \in 1 .. Len(origin) : origin[i].seq # s }

\* visit(s, content, inherit_from = a) on a seq without cache entry caches the
\* content and gives s the mapping entry of a, the empty string when a has none.
VisitInherits ==
    (last'.op = "visit" /\ session_exists /\ NewCacheKeys # {}) =>
        \A s \in NewCacheKeys, content \in Contents, a \in FreshSeqs :
            run_visit(content, s, Some(a))
            => ( /\ buffer_cache'[s] = content
                 /\ s \in DOMAIN seq_to_step'
                 /\ seq_to_step'[s] = (IF a \in DOMAIN seq_to_step
                                       THEN seq_to_step[a] ELSE "") )

\* record_step with a new seq, a parent_seq that visit cached with an
\* inherited entry and a non-empty diff creates a Step whose parents are that
\* entry, or none when the entry is the empty string.
StepFromVisited ==
    NewSeqCall =>
        \A content \in Contents, parent_seq \in VisitedSeqs \cap DOMAIN seq_to_step :
            ( /\ compute_diff(buffer_cache[parent_seq], content) # None
              /\ record_step(content, last'.seq[1], parent_seq, None, None) )
            => ( /\ last'.result = Created(StepId(step_counter + 1))
                 /\ Len(steps') = Len(steps) + 1
                 /\ steps'[Len(steps')].id = StepId(step_counter + 1)
                 /\ steps'[Len(steps')].parents =
                        (IF seq_to_step[parent_seq] # ""
                         THEN <<seq_to_step[parent_seq]>> ELSE <<>>) )

\* No call changes an entry of the content cache or of the mapping.
EntriesStay ==
    /\ \A s \in DOMAIN buffer_cache :
           s \in DOMAIN buffer_cache' /\ buffer_cache'[s] = buffer_cache[s]
    /\ \A s \in DOMAIN seq_to_step :
           s \in DOMAIN seq_to_step' /\ seq_to_step'[s] = seq_to_step[s]

\* C14: after visit(s, content, inherit_from = a) on a sequence s without
\* cache entry and mapping, s is cached and maps to what a mapped to at the
\* visit (the empty string when a had no entry), these entries stay, and a
\* record_step with parent_seq = s and a non-empty diff does not fail: it
\* creates a Step whose parents are [that Step id], or [] when it is empty.
C14_VisitedSeqIsUsableParent ==
    /\ [][VisitInherits]_vars
    /\ [][EntriesStay]_vars
    /\ [][StepFromVisited]_vars

\* A Step has just been created below a sequence cached by visit, with the
\* Step that visit inherited as its parent.
C14_Witness ==
    /\ session_exists
    /\ StepCall
    /\ Len(steps) >= 2
    /\ last.result = Created(steps[Len(steps)].id)
    /\ origin[Len(origin)].parent_seq \in VisitedSeqs
    /\ steps[Len(steps)].parents # <<>>

-----------------------------------------------------------------------------
(* Properties of note *)

\* note(intent) on a session whose head names a Step sets the intent of the
\* Step with that id, whatever intent it had, and changes nothing else.
NoteSetsHeadIntent ==
    (last'.op = "note" /\ session_exists /\ head # "none") =>
        \A intent \in NoteIntents :
            run_note(intent)
            => ( /\ last'.result = Ok
                 /\ Len(steps') = Len(steps)
                 /\ \A i \in 1 .. Len(steps) :
                        steps'[i] = IF steps[i].id = head
                                    THEN [steps[i] EXCEPT !.intent = Some(intent)]
                                    ELSE steps[i]
                 /\ UNCHANGED <<session_exists, head, buffer_cache, seq_to_step,
                                step_counter>> )

\* A record_step call leaves every existing Step, its intent included, as it was.
StepKeepsIntents ==
    last'.op = "step" =>
        /\ Len(steps') >= Len(steps)
        /\ \A i \in 1 .. Len(steps) : steps'[i] = steps[i]

\* C15: note(intent) sets the intent of the Step whose id is the current head
\* and changes no other Step, no other field of that Step, nor head, the
\* content cache, the mapping or the step counter; a note on a head that has
\* an intent replaces it; and the intent stays on its Step when record_step
\* moves head to a newer Step.
C15_NoteAnnotatesHeadOnly ==
    /\ [][NoteSetsHeadIntent]_vars
    /\ [][StepKeepsIntents]_vars

\* The first Step still carries the intent it was given while it was head,
\* after head has moved to the second Step and that Step has been annotated
\* with the other intent.
C15_Witness ==
    /\ session_exists
    /\ last.op = "note"
    /\ Len(steps) >= 2
    /\ head = steps[2].id
    /\ steps[1].intent = Some("Updated intent")
    /\ steps[2].intent = Some("First intent")

\* C16: note on a session in which no Step exists yet (head is "none") fails
\* with the no-head-step error and leaves the session record unchanged.
C16_NoteWithoutHeadFails ==
    [][( /\ last'.op = "note"
         /\ session_exists
         /\ head = "none" )
       => ( /\ last'.result = Err("no head step to annotate")
            /\ UNCHANGED disk )]_vars

\* A note has just failed for want of a head in a session that has cached a
\* sequence besides the initial one.
C16_Witness ==
    /\ session_exists
    /\ last = Call("note", None, Err("no head step to annotate"))
    /\ steps = <<>>
    /\ DOMAIN buffer_cache # {0}

-----------------------------------------------------------------------------
(* Properties of export *)

\* The keys under which session state would show in a public document.
TrackKeys == {"track", "buffer_cache", "seq_to_step", "step_counter"}

\* A public document carries no session state: no track key in its meta, and
\* no cache, mapping or counter at its top level, in its path or in its meta.
NoSessionState(d) ==
    /\ DOMAIN d = {"Path"}
    /\ DOMAIN d.Path \cap TrackKeys = {}
    /\ DOMAIN d.Path["path"] \cap TrackKeys = {}
    /\ "meta" \in DOMAIN d.Path => DOMAIN d.Path["meta"] \cap TrackKeys = {}

\* A public document has the id, base, head and steps of the session.
ShowsSession(d) ==
    /\ d.Path["path"]["id"] = session_id
    /\ "base" \notin DOMAIN d.Path["path"]
    /\ d.Path["path"]["head"] = head
    /\ Len(d.Path["steps"]) = Len(steps)
    /\ \A i \in 1 .. Len(steps) : StepFromJson(d.Path["steps"][i]) = steps[i]

\* What export prints is the Path load_session returns for the session file.
ExportEmitsSession ==
    (last'.op = "export" /\ session_exists) =>
        /\ last'.result = Ok
        /\ UNCHANGED disk
        /\ emitted' = Some(load_session(SessionFile(None, None)).path_doc)
        /\ LET out == FormatOutput(emitted'[1])
           IN ShowsSession(out) /\ NoSessionState(out)

StepAfterExportLoads ==
    (last.op = "export" /\ last.result = Ok /\ last'.op = "step") =>
        /\ last'.result # Err("failed to read session file")
        /\ session_exists'

-----------------------------------------------------------------------------
(* Properties of close *)

ReadFailure == Err("failed to read session file")

\* A close that runs to the end emits the document an export of the same
\* session emits and removes the session file.
CloseEmitsAndDeletes ==
    (last'.op = "close" /\ last'.result = Ok) =>
        /\ session_exists
        /\ emitted' = Some(Document)
        /\ LET out == FormatOutput(emitted'[1])
           IN ShowsSession(out) /\ NoSessionState(out)
        /\ ~session_exists'

\* An export emits the same document.
ExportEmitsDocument ==
    (last'.op = "export" /\ last'.result = Ok) => emitted' = Some(Document)

\* Once the file is gone every call fails on reading it and the file stays gone.
MissingFileFailsEveryCall ==
    ~session_exists =>
        /\ last'.op \in {"step", "visit", "note", "export", "close"}
        /\ last'.result = ReadFailure
        /\ emitted' = None
        /\ ~session_exists'

\* C18: close emits the document export emits and then deletes the session
\* file; after a successful close every step, visit, note, export and close
\* on the session fails on the missing file, and none of them creates it again.
C18_ClosedSessionStaysClosed ==
    /\ [][ /\ CloseEmitsAndDeletes
           /\ ExportEmitsDocument
           /\ MissingFileFailsEveryCall ]_vars
    /\ []((last.op = "close" /\ last.result = Ok) => ~session_exists)

\* A record_step call has just failed on a session that was closed.
C18_Witness ==
    /\ ~session_exists
    /\ last.op = "step"
    /\ last.result = ReadFailure

\* C19: when close has emitted the document and the removal of the session
\* file fails, close reports that failure, the emitted document stays and
\* the session record is unchanged; and the session file is removed only by
\* a close that has emitted the document.
C19_CloseDeletesOnlyAfterEmit ==
    [][(last'.op = "close" /\ session_exists)
       => ( /\ last'.result \in {Ok, Err("failed to remove session file"),
                                 Err("failed to write to output")}
            /\ last'.result = Err("failed to remove session file")
               => ( /\ emitted' = Some(Document)
                    /\ UNCHANGED disk )
            /\ ~session_exists'
               => ( /\ emitted' = Some(Document)
                    /\ last'.result = Ok )
            /\ emitted' = None
               => ( /\ last'.result = Err("failed to write to output")
                    /\ UNCHANGED disk ) )]_vars

\* The removal has just failed after a session with a Step was emitted.
C19_Witness ==
    /\ last = Call("close", None, Err("failed to remove session file"))
    /\ emitted # None
    /\ session_exists
    /\ steps # <<>>

-----------------------------------------------------------------------------
(* Properties of the session file *)

-----------------------------------------------------------------------------
(* Steps created from the initial content *)

\* A record_step call with parent_seq = 0 has just created a Step.
RootCall ==
    /\ last'.op = "step"
    /\ Len(origin') = Len(origin) + 1
    /\ origin'[Len(origin')].parent_seq = 0

\* C26 as stated: a Step created by record_step with parent_seq = 0 has an
\* empty parents list in every session reachable through step, visit and
\* note calls.
C26_Original_RootStepHasNoParents ==
    [][RootCall => steps'[Len(steps')].parents = <<>>]_vars

\* C26 (amended): a Step created by record_step with parent_seq = 0 has an
\* empty parents list unless sequence 0 has a mapping entry that names a Step;
\* then that Step is its only parent.  Sequence 0 gets a mapping entry from
\* no call but a visit with inherit_from.
C26_RootStepParents ==
    [][ /\ RootCall =>
            steps'[Len(steps')].parents =
                IF 0 \in DOMAIN seq_to_step /\ seq_to_step[0] # ""
                THEN <<seq_to_step[0]>>
                ELSE <<>>
        /\ (0 \in DOMAIN seq_to_step' /\ 0 \notin DOMAIN seq_to_step)
               => last'.op = "visit" ]_vars

\* A second Step has just been created from the initial content, with no
\* parents, while sequence 0 has no mapping entry.
C26_Witness ==
    /\ session_exists
    /\ last.op = "step"
    /\ Len(steps) >= 2
    /\ last.result = Created(steps[Len(steps)].id)
    /\ origin[Len(origin)].parent_seq = 0
    /\ steps[Len(steps)].parents = <<>>
    /\ 0 \notin DOMAIN seq_to_step

-----------------------------------------------------------------------------
(* The query engine at work on any Step collection with unique ids: parents
   may name a later Step, the Step itself (cycles) or no Step at all *)

MaxQuerySteps == 3

\* The ids of the Steps of a collection, in collection order.
QueryId(i) == "s" \o ToString(i)
\* An id no Step of the collection has.
dangling == "s0"
RefIds == { QueryId(i) : i \in 1 .. MaxQuerySteps } \cup { dangling }

\* The parents lists drawn: none, one id, or the ids of two Steps.
ParentLists ==
    {<<>>}
    \cup { <<a>> : a \in RefIds }
    \cup { <<QueryId(q[1]), QueryId(q[2])>> :
               q \in { r \in (1 .. MaxQuerySteps) \X (1 .. MaxQuerySteps) : r[1] < r[2] } }

make_step(id, parents) ==
    NewStep(id, "human:a", "2026-01-29T10:00:00Z", "@@", parents)

\* dead_ends(steps, head_id) is called and has entered ancestors:
\* result is empty and the stack holds head_id.
InitQuery ==
    \E n \in 0 .. MaxQuerySteps, head_id \in RefIds :
        \E parents \in [1 .. n -> ParentLists] :
            /\ steps = [i \in 1 .. n |-> make_step(QueryId(i), parents[i])]
            /\ head = head_id
            /\ query = [anc_stack |-> <<head_id>>,
                        anc_result |-> {},
                        anc_expanded |-> <<>>,
                        dead_ends_out |-> None]
            /\ WritersIdle
            /\ ListIdle
            /\ WatcherIdle
            /\ ConvoIdle
            /\ session_exists = FALSE
            /\ buffer_cache = <<>>
            /\ seq_to_step = <<>>
            /\ step_counter = 0
            /\ emitted = None
            /\ last = Call("dead_ends", None, Ok)
            /\ origin = <<>>
            /\ skipped = <<>>

\* Variant: the parents of an id are pushed every time it is popped.
AncestorsLoopRevisiting ==
    /\ anc_stack # <<>>
    /\ LET id == anc_stack[Len(anc_stack)]
           rest == SubSeq(anc_stack, 1, Len(anc_stack) - 1)
           step == StepOf(steps, id)
       IN  query' = IF step # None
                    THEN [query EXCEPT
                              !.anc_result = anc_result \cup {id},
                              !.anc_stack = rest \o step[1].parents,
                              !.anc_expanded = Append(anc_expanded, id)]
                    ELSE [query EXCEPT
                              !.anc_result = anc_result \cup {id},
                              !.anc_stack = rest]
    /\ UNCHANGED besidesQuery

\* One iteration of `while let Some(id) = stack.pop()`.
AncestorsLoop ==
    /\ anc_stack # <<>>
    /\ LET id == anc_stack[Len(anc_stack)]
           rest == SubSeq(anc_stack, 1, Len(anc_stack) - 1)
           step == StepOf(steps, id)
       IN  query' = IF id \notin anc_result /\ step # None
                    THEN [query EXCEPT
                              !.anc_result = anc_result \cup {id},
                              !.anc_stack = rest \o step[1].parents,
                              !.anc_expanded = Append(anc_expanded, id)]
                    ELSE [query EXCEPT
                              !.anc_result = anc_result \cup {id},
                              !.anc_stack = rest]
    /\ UNCHANGED besidesQuery

\* ancestors has returned `result` as `active`; dead_ends filters the Steps.
DeadEndsFilter ==
    /\ anc_stack = <<>>
    /\ dead_ends_out = None
    /\ LET keep(s) == s.id \notin anc_result
       IN  query' = [query EXCEPT !.dead_ends_out = Some(SelectSeq(steps, keep))]
    /\ UNCHANGED besidesQuery

NextQuery == AncestorsLoop \/ DeadEndsFilter

SpecQuery == InitQuery /\ [][NextQuery]_vars

\* The query is a computation that runs: its next step is taken.
SpecQueryFair == SpecQuery /\ WF_vars(NextQuery)

-----------------------------------------------------------------------------
(* Properties of the query engine *)

\* The ids one parents link away from an id of S.
ParentsOf(all_steps, S) ==
    UNION { { all_steps[i].parents[k] : k \in DOMAIN all_steps[i].parents }
            : i \in { j \in 1 .. Len(all_steps) : all_steps[j].id \in S } }

\* The ids reachable from the ids of S by following parents links zero or
\* more times: the least set that holds S and is closed under ParentsOf.
RECURSIVE ReachableFrom(_, _)
ReachableFrom(all_steps, S) ==
    LET more == S \cup ParentsOf(all_steps, S)
    IN  IF more = S THEN S ELSE ReachableFrom(all_steps, more)

StepIdsOf(all_steps) == { all_steps[i].id : i \in 1 .. Len(all_steps) }

\* C23: ancestors(steps, head_id) is exactly the set of ids reachable from
\* head_id by following parents links zero or more times, head_id included;
\* it is {head_id} when head_id is the id of no Step; and a parent id that is
\* the id of no Step is in the result, unexpanded, without a failure.  The
\* loop of ancestors ends with that set.
C23_AncestorsIsReachableSet ==
    LET active == ancestors(steps, head)
    IN  /\ active = ReachableFrom(steps, {head})
        /\ head \in active
        /\ head \notin StepIdsOf(steps) => active = {head}
        /\ \A i \in 1 .. Len(steps) :
               steps[i].id \in active =>
                   \A k \in DOMAIN steps[i].parents : steps[i].parents[k] \in active
        /\ anc_stack = <<>> => anc_result = active
        /\ \A k \in DOMAIN anc_expanded : anc_expanded[k] \in StepIdsOf(steps)

\* The walk has ended on a fork with a dangling parent: its result holds
\* two Steps and the dangling id, and leaves a third Step out.
C23_Witness ==
    /\ anc_stack = <<>>
    /\ dangling \in anc_result
    /\ head # dangling
    /\ Cardinality(anc_result \cap StepIdsOf(steps)) = 2
    /\ Len(steps) = 3

\* No id is expanded twice.
ExpandedOnce ==
    \A j, k \in DOMAIN anc_expanded : anc_expanded[j] = anc_expanded[k] => j = k

\* The id is reachable from its own parents: it lies on a cycle.
OnCycle(id) == id \in ReachableFrom(steps, ParentsOf(steps, {id}))

\* C24: ancestors and dead_ends terminate on every finite Step collection,
\* cyclic ones included: each Step id is expanded at most once, so at most as
\* many expansions as there are Steps, and the walk and the filter end.
C24_QueriesTerminate ==
    /\ [](ExpandedOnce /\ Len(anc_expanded) <= Len(steps))
    /\ <>(anc_stack = <<>> /\ dead_ends_out # None)

\* dead_ends has returned on a collection in which the head and every Step
\* expanded, at least two, lie on a cycle.
C24_Witness ==
    /\ dead_ends_out # None
    /\ Len(anc_expanded) >= 2
    /\ OnCycle(head)
    /\ \A k \in DOMAIN anc_expanded : OnCycle(anc_expanded[k])

\* The place of a Step in the collection.
IndexOf(all_steps, s) == CHOOSE i \in 1 .. Len(all_steps) : all_steps[i] = s

\* C25: dead_ends(steps, head_id) returns exactly the Steps of the input
\* whose id is not in ancestors(steps, head_id), in their input order: every
\* input Step is an ancestor of the head or a dead end and never both.
C25_DeadEndsAreTheNonAncestors ==
    LET active == ancestors(steps, head)
        out == dead_ends(steps, head)
    IN  /\ \A k \in 1 .. Len(out) :
               \E i \in 1 .. Len(steps) : steps[i] = out[k] /\ steps[i].id \notin active
        /\ \A i \in 1 .. Len(steps) :
               (steps[i].id \in active) # (\E k \in 1 .. Len(out) : out[k] = steps[i])
        /\ \A j, k \in 1 .. Len(out) :
               j < k => IndexOf(steps, out[j]) < IndexOf(steps, out[k])
        /\ dead_ends_out # None => dead_ends_out[1] = out

\* dead_ends has returned the first and the third Step of a collection whose
\* head is the second.
C25_Witness ==
    /\ dead_ends_out # None
    /\ Len(steps) = 3
    /\ head = QueryId(2)
    /\ dead_ends_out[1] = <<steps[1], steps[3]>>
    /\ steps[3].parents = <<QueryId(1)>>

-----------------------------------------------------------------------------
(* Concurrent record_step calls on one session file.

   Each process runs record_step once: it loads the session file, mutates
   its own copy, and saves it with save_session, which creates a
   NamedTempFile in the directory of the session file, writes the record to
   it and renames it over the session file.  A process can be killed at any
   point, which leaves its temporary file behind. *)

\* The directory given as --session-dir and the path init_session returns.
session_dir == "sessions"
session_path == [dir |-> session_dir, name |-> session_id \o ".json"]

\* path.parent()
Parent(path) == path.dir

\* What load_session reads, with the history kept beside the record.
LoadedCopy == [rec |-> SessionRecord, origin |-> origin, skipped |-> skipped]

\* The copy after the in-memory part of record_step.
Mutate(copy, content, seq, parent_seq) ==
    LET rec == RecordStepOn(copy.rec, content, seq, parent_seq)
        entry == [seq |-> seq, parent_seq |-> parent_seq,
                  had_mapping |-> parent_seq \in DOMAIN copy.rec.seq_to_step]
        created == rec.step_counter # copy.rec.step_counter
    IN  [rec |-> rec,
         origin |-> IF created THEN Append(copy.origin, entry) ELSE copy.origin,
         skipped |-> IF created THEN copy.skipped
                     ELSE (seq :> [parent_seq |-> entry.parent_seq,
                                   had_mapping |-> entry.had_mapping]) @@ copy.skipped]

\* The StepResult of a record_step call that saved `after` having loaded
\* `before`.
StepResultOf(before, after) ==
    IF after.rec.step_counter # before.rec.step_counter
    THEN Created(after.rec.head) ELSE Skip

\* record_step up to the call of save_session: load, revisit test, parent
\* lookup, diff and the changes of the in-memory copy.
LoadAndMutate(p, content, seq, parent_seq) ==
    /\ writers[p].pc = "idle"
    /\ LET done(result) == [pc |-> "done", seq |-> Some(seq), mem |-> None,
                            result |-> Some(result)]
       IN  saving' = [saving EXCEPT !.writers[p] =
               IF LoadFails THEN done(Err("failed to read session file"))
               ELSE IF IsRevisit(seq) THEN done(Skip)
               ELSE IF ParentLookup(parent_seq) = None
                    THEN done(Err("parent seq not found in buffer cache"))
               ELSE LET after == Mutate(LoadedCopy, content, seq, parent_seq)
                    IN  [pc |-> "mutated", seq |-> Some(seq), mem |-> Some(after),
                         result |-> Some(StepResultOf(LoadedCopy, after))]]
    /\ UNCHANGED <<disk, origin, skipped, besidesWriters>>

\* tempfile::NamedTempFile::new_in(dir)
CreateTemp(p) ==
    /\ writers[p].pc = "mutated"
    /\ saving' = [saving EXCEPT
           !.writers[p].pc = "writing",
           !.tmp_files[p] =
               Some([dir |-> Parent(session_path), doc |-> writers[p].mem[1],
                     written |-> 0])]
    /\ UNCHANGED <<disk, origin, skipped, besidesWriters>>

\* One write of serde_json::to_writer_pretty(&tmp, &wrapped).
WriteChunk(p) ==
    /\ writers[p].pc = "writing"
    /\ tmp_files[p][1].written < WriteCalls
    /\ saving' = [saving EXCEPT
           !.tmp_files[p] = Some([@[1] EXCEPT !.written = @ + 1])]
    /\ UNCHANGED <<disk, origin, skipped, besidesWriters>>

\* The session file becomes the temporary file of p.
Install(p) ==
    LET tmp == tmp_files[p][1]
    IN  /\ steps' = tmp.doc.rec.steps
        /\ head' = tmp.doc.rec.head
        /\ buffer_cache' = tmp.doc.rec.buffer_cache
        /\ seq_to_step' = tmp.doc.rec.seq_to_step
        /\ step_counter' = tmp.doc.rec.step_counter
        /\ origin' = tmp.doc.origin
        /\ skipped' = tmp.doc.skipped
        /\ saving' = [saving EXCEPT
               !.file_written = tmp.written,
               !.tmp_files[p] = None,
               !.last_writer = p,
               !.writers[p].pc = "done"]
        /\ UNCHANGED <<session_exists, besidesWriters>>

\* Variant: the file is renamed as soon as it exists, written out or not.
PersistUnfinished(p) ==
    /\ writers[p].pc = "writing"
    /\ Install(p)

\* Variant: the rename keeps the cache entries the session file had.
PersistMergingCache(p) ==
    /\ writers[p].pc = "writing"
    /\ tmp_files[p][1].written = WriteCalls
    /\ LET tmp == tmp_files[p][1]
       IN  /\ steps' = tmp.doc.rec.steps
           /\ head' = tmp.doc.rec.head
           /\ buffer_cache' = tmp.doc.rec.buffer_cache @@ buffer_cache
           /\ seq_to_step' = tmp.doc.rec.seq_to_step @@ seq_to_step
           /\ step_counter' = tmp.doc.rec.step_counter
           /\ origin' = tmp.doc.origin
           /\ skipped' = tmp.doc.skipped
           /\ saving' = [saving EXCEPT
                  !.file_written = tmp.written,
                  !.tmp_files[p] = None,
                  !.last_writer = p,
                  !.writers[p].pc = "done"]
           /\ UNCHANGED <<session_exists, besidesWriters>>

\* tmp.persist(path), reached when to_writer_pretty has returned; then
\* record_step returns its result.
Persist(p) ==
    /\ writers[p].pc = "writing"
    /\ tmp_files[p][1].written = WriteCalls
    /\ Install(p)

\* The `?` of save_session: creating, writing or renaming the temporary file
\* fails; the NamedTempFile is dropped, which removes it, and record_step
\* returns the error.
SaveFails(p) ==
    /\ writers[p].pc \in {"mutated", "writing"}
    /\ saving' = [saving EXCEPT
           !.writers[p].pc = "done",
           !.writers[p].result = Some(Err("failed to save session")),
           !.tmp_files[p] = None]
    /\ UNCHANGED <<disk, origin, skipped, besidesWriters>>

\* The process is killed inside save_session: nothing it owns is cleaned up.
Crash(p) ==
    /\ writers[p].pc \in {"mutated", "writing"}
    /\ saving' = [saving EXCEPT
           !.writers[p].pc = "crashed", !.writers[p].result = None]
    /\ UNCHANGED <<disk, origin, skipped, besidesWriters>>

NextWriters ==
    \E p \in Procs :
        \/ \E content \in Contents, seq \in Seqs, parent_seq \in Seqs :
               LoadAndMutate(p, content, seq, parent_seq)
        \/ CreateTemp(p)
        \/ WriteChunk(p)
        \/ Persist(p)
        \/ SaveFails(p)
        \/ Crash(p)

\* Two processes are about to operate on the session `track init` made.
InitWriters ==
    /\ \E content \in Contents : init_session(content)
    /\ saving = [writers |-> [p \in Procs |-> IdleWriter],
                 tmp_files |-> [p \in Procs |-> None],
                 file_written |-> WriteCalls,
                 last_writer |-> 0,
                 calls |-> 0]
    /\ QueryIdle
    /\ ListIdle
    /\ WatcherIdle
    /\ ConvoIdle

SpecWriters == InitWriters /\ [][NextWriters]_vars

-----------------------------------------------------------------------------
(* Properties of the save and of concurrent writers *)

\* The record a reader of the session path gets, without the history.
OnDisk ==
    [steps |-> steps, head |-> head, buffer_cache |-> buffer_cache,
     seq_to_step |-> seq_to_step, step_counter |-> step_counter]

\* The same fields of an in-memory copy.
RecordOf(copy) ==
    [steps |-> copy.rec.steps, head |-> copy.rec.head,
     buffer_cache |-> copy.rec.buffer_cache,
     seq_to_step |-> copy.rec.seq_to_step,
     step_counter |-> copy.rec.step_counter]

\* The session file holds every write of its record.
SessionFileWhole == session_exists /\ file_written = WriteCalls

\* The temporary files are in the directory of the session file.
TempFilesBesideSession ==
    \A p \in Procs :
        tmp_files[p] # None => tmp_files[p][1].dir = session_dir

\* The session file changes only by the rename of a temporary file that
\* holds the whole new record of the process that saves.
ReplacedByWholeRecord ==
    (OnDisk' # OnDisk \/ file_written' # file_written \/ last_writer' # last_writer) =>
        \E p \in Procs :
            /\ writers[p].pc = "writing"
            /\ writers'[p].pc = "done"
            /\ tmp_files[p][1].written = WriteCalls
            /\ tmp_files[p][1].doc = writers[p].mem[1]
            /\ OnDisk' = RecordOf(writers[p].mem[1])
            /\ file_written' = WriteCalls

\* C21: save_session writes the whole new record to a temporary file in the
\* directory of the session file and renames it over the session file, so at
\* every instant, also after a crash at any point of the save, a reader of
\* the session path sees the whole previous record or the whole new record,
\* never a truncated or mixed one.
C21_SaveIsAtomic ==
    /\ [](SessionFileWhole /\ TempFilesBesideSession)
    /\ [][ReplacedByWholeRecord]_vars

\* A process was killed with its temporary file half written, after the
\* other process had replaced the session file.
C21_Witness ==
    /\ last_writer # 0
    /\ \E p \in Procs \ {last_writer} :
           /\ writers[p].pc = "crashed"
           /\ tmp_files[p] # None
           /\ tmp_files[p][1].written \in 1 .. WriteCalls - 1
           /\ RecordOf(tmp_files[p][1].doc) # OnDisk
    /\ SessionFileWhole
    /\ OnDisk = RecordOf(writers[last_writer].mem[1])

\* C22: with two processes operating on the session at the same time, the
\* record on disk is exactly the state written by the process that replaced
\* the file last, which returned without an error; the update of the other
\* process can be missing although it returned without an error too.
C22_LastWriterWins ==
    last_writer # 0 =>
        /\ writers[last_writer].pc = "done"
        /\ writers[last_writer].result[1].kind \in {"Created", "Skip"}
        /\ OnDisk = RecordOf(writers[last_writer].mem[1])

\* Both processes returned Created, and the record on disk has one Step, made
\* by the last writer, and neither the cached sequence nor the mapping of the
\* process that saved first.
C22_Witness ==
    /\ last_writer # 0
    /\ \E p \in Procs \ {last_writer} :
           /\ writers[p].pc = "done"
           /\ writers[p].result[1].kind = "Created"
           /\ writers[last_writer].result[1].kind = "Created"
           /\ writers[p].seq[1] \notin DOMAIN buffer_cache
           /\ writers[p].seq[1] \notin DOMAIN seq_to_step
           /\ Len(steps) = 1
           /\ origin[1].seq = writers[last_writer].seq[1]

-----------------------------------------------------------------------------
(* run_list: the sessions of a directory.

   The directory holds the session file, while the session is open, and
   other files.  A file is a name and a content; a content is a text that
   parses as JSON or does not. *)

Text(parses, json) == [parses |-> parses, json |-> json]

\* A session another init left in the directory, as save_session writes it.
other_session ==
    save_session(
        [id |-> "track-other", base |-> None, head |-> "none", steps |-> <<>>,
         meta |-> None],
        [version |-> 1, file |-> "a.txt", default_actor |-> "human:alice",
         buffer_cache |-> <<>>, seq_to_step |-> <<>>, step_counter |-> 0,
         created_at |-> created_at])

\* The files found beside the session file: a session of another init, a
\* text that is no JSON, an exported Path document (no meta.track), a Step
\* document, and files whose names are not track-*.json.
OtherFiles ==
    ("track-other.json" :> Text(TRUE, other_session))
    @@ ("track-corrupt.json" :> Text(FALSE, <<>>))
    @@ ("track-export.json" :>
            Text(TRUE, FormatOutput([id |-> "track-export", base |-> None,
                                     head |-> "none", steps |-> <<>>,
                                     meta |-> None])))
    @@ ("track-step.json" :> Text(TRUE, [Step |-> [id |-> "step-001"]]))
    @@ ("other.json" :> Text(TRUE, <<>>))
    @@ ("track-notes.txt" :> Text(FALSE, <<>>))

\* name_str.starts_with("track-") && name_str.ends_with(".json")
NameMatches(name) ==
    /\ Len(name) >= 11
    /\ SubSeq(name, 1, 6) = "track-"
    /\ SubSeq(name, Len(name) - 4, Len(name)) = ".json"

\* load_session on the content of a file: the text is parsed as a Document,
\* which must be a Path, and load_session takes meta.track out of it.
ReadSession(content) ==
    IF ~content.parses THEN Err("failed to parse session file")
    ELSE IF DOMAIN content.json = {} THEN Err("failed to parse session file")
    ELSE IF "Path" \notin DOMAIN content.json
         THEN Err("session file is not a Path document")
    ELSE load_session(content.json)

IsLoaded(loaded) == "path_doc" \in DOMAIN loaded

\* The entries of the session directory: name -> content.
DirEntries ==
    IF session_exists
    THEN (session_path.name :> Text(TRUE, SessionFile(None, None))) @@ dir_files
    ELSE dir_files

SessionSummary(name, loaded) ==
    [session_file |-> [dir |-> session_dir, name |-> name],
     session_id |-> loaded.path_doc.id,
     file |-> loaded.state.file,
     actor |-> loaded.state.default_actor,
     steps |-> Len(loaded.path_doc.steps),
     created_at |-> loaded.state.created_at]

\* Variant: a file that does not load makes the listing fail.
RunListStrict ==
    LET bad == { name \in DOMAIN DirEntries :
                     NameMatches(name) /\ ~IsLoaded(ReadSession(DirEntries[name])) }
        names == { name \in DOMAIN DirEntries :
                       NameMatches(name) /\ IsLoaded(ReadSession(DirEntries[name])) }
    IN  /\ directory' = [directory EXCEPT !.listed =
                IF bad # {} THEN None
                ELSE Some({ SessionSummary(name, ReadSession(DirEntries[name])) :
                                name \in names })]
        /\ last' = Call("list", None,
                        IF bad # {} THEN Err("failed to parse session file") ELSE Ok)
        /\ emitted' = None
        /\ UNCHANGED <<disk, origin, skipped>>

\* run_list: the summaries of the entries named track-*.json that
\* load_session loads; read_dir gives the entries in no particular order.
run_list ==
    LET names == { name \in DOMAIN DirEntries :
                       NameMatches(name) /\ IsLoaded(ReadSession(DirEntries[name])) }
    IN  /\ directory' = [directory EXCEPT !.listed =
                Some({ SessionSummary(name, ReadSession(DirEntries[name])) :
                           name \in names })]
        /\ last' = Call("list", None, Ok)
        /\ emitted' = None
        /\ UNCHANGED <<disk, origin, skipped>>

List ==
    /\ run_list
    /\ UNCHANGED <<queryVars, writerVars, watcherVars, convoVars>>

\* The directory after init: the new session file alone, with one of the
\* other files, or with all of them.
InitList ==
    /\ \E content \in Contents : init_session(content)
    /\ QueryIdle
    /\ WritersIdle
    /\ WatcherIdle
    /\ ConvoIdle
    /\ \E names \in { S \in SUBSET DOMAIN OtherFiles :
                         Cardinality(S) \in {0, 1, Cardinality(DOMAIN OtherFiles)} } :
           directory = [dir_files |-> [name \in names |-> OtherFiles[name]],
                        listed |-> None]

NextList == Step \/ Close \/ List

SpecList == InitList /\ [][NextList]_vars

\* The names the latest listing reported.
ListedNames == { s.session_file.name : s \in listed[1] }

\* C27: a session created by init is reported by the listing of its
\* directory as long as it has not been closed and is not reported after
\* close; a file of the directory that is no loadable session is skipped and
\* does not make the listing fail.
C27_ListReportsOpenSessions ==
    last.op = "list" =>
        /\ last.result = Ok
        /\ listed # None
        /\ session_exists <=>
               \E s \in listed[1] :
                   /\ s.session_file = session_path
                   /\ s.session_id = session_id
                   /\ s.steps = Len(steps)
        /\ ListedNames \ {session_path.name} =
               DOMAIN dir_files \cap {"track-other.json"}

\* A listing after two Steps reported the session and the other session, in
\* a directory that also holds the corrupt file, the exported document and
\* the file with another name.
C27_Witness ==
    /\ last.op = "list"
    /\ session_exists
    /\ Len(steps) = 2
    /\ {"track-corrupt.json", "track-export.json", "other.json"} \subseteq DOMAIN dir_files
    /\ ListedNames = {session_path.name, "track-other.json"}

\* A listing after close reported no session, in a directory that holds the
\* corrupt file.
C27_WitnessClosed ==
    /\ last.op = "list"
    /\ ~session_exists
    /\ "track-corrupt.json" \in DOMAIN dir_files
    /\ listed = Some({})

-----------------------------------------------------------------------------
(* The live watcher (crates/toolpath-claude/src/async_watcher.rs).

   A background task tails a conversation log.  At the top of its loop it
   selects among the stop signal, a filesystem notification and the tick of
   the poll timer; a notification outside the debounce window and a tick make
   it read the log from byte_offset and send the entries read, if any, as
   one batch on the bounded data channel.  The log's writer, the
   notifications, the consumer and the holder of the WatcherHandle are the
   environment. *)

\* The log's writer appends the entries 1 .. MaxEntries in this order.
MaxEntries == 2

\* The capacity of the data channel the caller of start() passes, in batches.
ChannelCap == 1

\* The capacity of the event channel (16 in the program).
EventCap == 1

\* An entry is a line of EntryBytes bytes followed by the newline byte.
EntryBytes == 2
NL == 0
Byte(k, i) == 10 * k + i
Line(k) == [i \in 1 .. EntryBytes |-> Byte(k, i)]

\* The carriage return byte.
CR == 1

\* serde_json::from_str::<ConversationEntry>(&line): the entry of a whole
\* line, nothing for any other text (a part of a line, an empty line).  The
\* parser accepts whitespace after the value: a carriage return left at the
\* end of the line.
ParseEntry(line) ==
    LET text == IF line # <<>> /\ line[Len(line)] = CR
                THEN SubSeq(line, 1, Len(line) - 1) ELSE line
    IN  IF \E k \in 1 .. MaxEntries : text = Line(k)
        THEN Some(CHOOSE k \in 1 .. MaxEntries : text = Line(k))
        ELSE None

\* The loop over reader.lines(): each line, the last one with or without its
\* newline, advances the offset by its length plus one and is pushed when it
\* parses.  lines() gives a line without its "\n" or "\r\n".
RECURSIVE ReadLines(_, _, _)
ReadLines(rest, current_offset, entries) ==
    IF rest = <<>> THEN [entries |-> entries, offset |-> current_offset]
    ELSE LET ends == { i \in 1 .. Len(rest) : rest[i] = NL }
             n == IF ends = {} THEN Len(rest) + 1
                  ELSE CHOOSE i \in ends : \A j \in ends : i <= j
             raw == SubSeq(rest, 1, n - 1)
             line == IF ends # {} /\ raw # <<>> /\ raw[Len(raw)] = CR
                     THEN SubSeq(raw, 1, Len(raw) - 1) ELSE raw
             entry == ParseEntry(line)
         IN  ReadLines(SubSeq(rest, n + 1, Len(rest)),
                       current_offset + Len(line) + 1,
                       IF entry # None THEN Append(entries, entry[1]) ELSE entries)

\* ConversationReader::read_from_offset
read_from_offset(data, offset) ==
    IF offset > Len(data) THEN [entries |-> <<>>, offset |-> Len(data)]
    ELSE ReadLines(SubSeq(data, offset + 1, Len(data)), offset, <<>>)

\* The last line of the log has no newline yet.
LineOpen == log_file # <<>> /\ log_file[Len(log_file)] # NL

\* The notify callback: a modification is notified, unless the notification
\* is missed or the event channel is full.
Notify(notified) ==
    IF notified /\ fs_events < EventCap THEN fs_events + 1 ELSE fs_events

\* start(): the task is spawned with the log empty and the receiver open.
InitWatcher ==
    /\ watcher = [log_file |-> <<>>,
                  appended |-> 0,
                  byte_offset |-> 0,
                  fs_events |-> 0,
                  task_pc |-> "select",
                  batch |-> <<>>,
                  channel |-> <<>>,
                  received |-> <<>>,
                  rx_open |-> TRUE,
                  stop_sent |-> FALSE,
                  read_log |-> <<>>]
    /\ QueryIdle
    /\ WritersIdle
    /\ ListIdle
    /\ ConvoIdle
    /\ session_exists = FALSE
    /\ steps = <<>>
    /\ head = "none"
    /\ buffer_cache = <<>>
    /\ seq_to_step = <<>>
    /\ step_counter = 0
    /\ emitted = None
    /\ last = Call("start", None, Ok)
    /\ origin = <<>>
    /\ skipped = <<>>

\* The writer appends the next entry as one whole line.
AppendLine ==
    /\ appended < MaxEntries
    /\ ~LineOpen
    /\ \E notified \in BOOLEAN :
           watcher' = [watcher EXCEPT
                           !.appended = appended + 1,
                           !.log_file = log_file \o Line(appended + 1) \o <<NL>>,
                           !.fs_events = Notify(notified)]
    /\ UNCHANGED besidesWatcher

\* The first bytes of the next line become visible before the rest of it.
AppendTorn ==
    /\ appended < MaxEntries
    /\ ~LineOpen
    /\ \E cut \in 1 .. EntryBytes, notified \in BOOLEAN :
           watcher' = [watcher EXCEPT
                           !.appended = appended + 1,
                           !.log_file = log_file \o SubSeq(Line(appended + 1), 1, cut),
                           !.fs_events = Notify(notified)]
    /\ UNCHANGED besidesWatcher

\* The rest of the open line and its newline become visible.
AppendRest ==
    /\ LineOpen
    /\ LET ends == { i \in 1 .. Len(log_file) : log_file[i] = NL }
           begun == Len(log_file) - (IF ends = {} THEN 0
                                     ELSE CHOOSE i \in ends : \A j \in ends : i >= j)
       IN  \E notified \in BOOLEAN :
               watcher' = [watcher EXCEPT
                               !.log_file = log_file
                                   \o SubSeq(Line(appended), begun + 1, EntryBytes)
                                   \o <<NL>>,
                               !.fs_events = Notify(notified)]
    /\ UNCHANGED besidesWatcher

\* Variant: the stop branch is taken and the loop goes on.
TaskStopBranchContinuing ==
    /\ task_pc = "select"
    /\ stop_sent
    /\ watcher' = [watcher EXCEPT !.task_pc = "select"]
    /\ UNCHANGED besidesWatcher

\* select!: `_ = stop_rx.recv() => break`
TaskStopBranch ==
    /\ task_pc = "select"
    /\ stop_sent
    /\ watcher' = [watcher EXCEPT !.task_pc = "terminated"]
    /\ UNCHANGED besidesWatcher

\* select!: `Some(()) = event_rx.recv()`; the event is dropped inside the
\* debounce window, and makes the task read outside of it.
TaskEventBranch ==
    /\ task_pc = "select"
    /\ fs_events > 0
    /\ \E in_window \in BOOLEAN :
           watcher' = [watcher EXCEPT
                           !.fs_events = fs_events - 1,
                           !.task_pc = IF in_window THEN "select" ELSE "reading"]
    /\ UNCHANGED besidesWatcher

\* select!: `_ = poll_timer.tick()`
TaskTickBranch ==
    /\ task_pc = "select"
    /\ watcher' = [watcher EXCEPT !.task_pc = "reading"]
    /\ UNCHANGED besidesWatcher

\* read_new_entries: the log is read from byte_offset, which moves to the
\* offset returned; the entries, if any, are to be sent.
read_new_entries ==
    /\ task_pc = "reading"
    /\ LET got == read_from_offset(log_file, byte_offset)
       IN  watcher' = [watcher EXCEPT
                           !.byte_offset = got.offset,
                           !.batch = got.entries,
                           !.read_log = read_log \o got.entries,
                           !.task_pc = IF got.entries # <<>> THEN "sending"
                                       ELSE "select"]
    /\ UNCHANGED besidesWatcher

\* Variant: a batch that finds the channel full is dropped.
TaskSendDropping ==
    /\ task_pc = "sending"
    /\ watcher' = IF ~rx_open
                  THEN [watcher EXCEPT !.task_pc = "terminated", !.batch = <<>>]
                  ELSE [watcher EXCEPT
                            !.task_pc = "select",
                            !.channel = IF Len(channel) < ChannelCap
                                        THEN Append(channel, batch)
                                        ELSE channel,
                            !.batch = <<>>]
    /\ UNCHANGED besidesWatcher

\* tx.send(entries).await: completes when the channel has room, fails when
\* the receiver is gone (`break`), and waits otherwise.
TaskSend ==
    /\ task_pc = "sending"
    /\ ~rx_open \/ Len(channel) < ChannelCap
    /\ watcher' = IF ~rx_open
                  THEN [watcher EXCEPT !.task_pc = "terminated", !.batch = <<>>]
                  ELSE [watcher EXCEPT
                            !.task_pc = "select",
                            !.channel = Append(channel, batch),
                            !.batch = <<>>]
    /\ UNCHANGED besidesWatcher

\* The consumer: rx.recv()
Recv ==
    /\ rx_open
    /\ channel # <<>>
    /\ watcher' = [watcher EXCEPT
                       !.received = received \o Head(channel),
                       !.channel = Tail(channel)]
    /\ UNCHANGED besidesWatcher

\* The consumer drops the receiver, and the batches in the channel with it.
DropReceiver ==
    /\ rx_open
    /\ watcher' = [watcher EXCEPT !.rx_open = FALSE, !.channel = <<>>]
    /\ UNCHANGED besidesWatcher

\* WatcherHandle::stop(): the signal goes into the stop channel, which has
\* room for it.
WatcherStop ==
    /\ ~stop_sent
    /\ watcher' = [watcher EXCEPT !.stop_sent = TRUE]
    /\ UNCHANGED besidesWatcher

NextWatcher ==
    \/ AppendLine \/ AppendTorn \/ AppendRest
    \/ TaskStopBranch \/ TaskEventBranch \/ TaskTickBranch
    \/ read_new_entries \/ TaskSend
    \/ Recv \/ DropReceiver \/ WatcherStop

SpecWatcher == InitWatcher /\ [][NextWatcher]_vars

\* The scheduling of the task: a read and a send that can complete do
\* complete, and select!, which picks at random among its ready branches,
\* does not pass over the stop branch or the timer branch forever.
TaskFairness ==
    /\ WF_vars(read_new_entries)
    /\ WF_vars(TaskSend)
    /\ SF_vars(TaskStopBranch)
    /\ SF_vars(TaskTickBranch)

SpecWatcherFair == SpecWatcher /\ TaskFairness

-----------------------------------------------------------------------------
(* Properties of the live watcher *)

\* The entries of a sequence of batches, in order.
RECURSIVE Flatten(_)
Flatten(batches) ==
    IF batches = <<>> THEN <<>> ELSE Head(batches) \o Flatten(Tail(batches))

\* The task waits in send: the channel is full and its receiver is open.
Blocked ==
    /\ task_pc = "sending"
    /\ rx_open
    /\ Len(channel) = ChannelCap

\* What the consumer has received, then the batches in the channel, then the
\* batch being sent, are the entries read, in the order read.
NothingDropped ==
    rx_open => received \o Flatten(channel) \o batch = read_log

\* The entries read are in log order, each once.
ReadInLogOrder ==
    \A i, j \in 1 .. Len(read_log) : i < j => read_log[i] < read_log[j]

\* A blocked task stays in its send with its batch.
BlockedKeepsBatch ==
    Blocked => (task_pc' = "sending" /\ batch' = batch)

\* C28: the task sends every batch it reads on the bounded channel in read
\* order, and blocks in send when the channel is full instead of dropping;
\* while the receiver is open, the entries received, those in the channel
\* and those being sent are exactly the entries read, once each, in log order.
C28_BatchesSentInOrder ==
    /\ [](NothingDropped /\ ReadInLogOrder)
    /\ [][BlockedKeepsBatch]_vars

\* The task is blocked sending the second entry while the channel holds the
\* first one, which the consumer has not received yet.
C28_Witness ==
    /\ Blocked
    /\ channel = << <<1>> >>
    /\ batch = <<2>>
    /\ received = <<>>

\* The whole line of entry k, newline included, is in the log.
Appended(k) == k < appended \/ (k = appended /\ ~LineOpen)

Delivered(k) == \E i \in 1 .. Len(received) : received[i] = k

\* The watcher runs and its consumer keeps receiving.
WatcherRuns == [](~stop_sent /\ rx_open) /\ WF_vars(Recv)

\* C29: while the watcher task is running and the consumer keeps receiving,
\* every entry appended to the log is eventually delivered to the consumer,
\* whether or not its notification was missed or dropped by the debounce.
C29_EveryEntryDelivered ==
    WatcherRuns =>
        \A k \in 1 .. MaxEntries : [](Appended(k) => <>Delivered(k))

\* The same for a log whose lines become visible whole: no read finds the
\* last line without its newline.
C29_WholeLinesDelivered ==
    (WatcherRuns /\ [](task_pc = "reading" => ~LineOpen)) =>
        \A k \in 1 .. MaxEntries : [](Appended(k) => <>Delivered(k))

\* The task is back at its select with the whole log behind byte_offset, the
\* first entry is in the log with its newline, and the task has not read it.
C29_Witness ==
    /\ Appended(1)
    /\ task_pc = "select"
    /\ byte_offset = Len(log_file)
    /\ \A i \in 1 .. Len(read_log) : read_log[i] # 1
    /\ ~stop_sent
    /\ rx_open

\* C30 as stated: after the stop signal was sent the task eventually
\* terminates, in every state of the task and of the channel.
C30_Original_StopTerminates ==
    stop_sent ~> (task_pc = "terminated")

\* C30: after the stop signal was sent the task eventually terminates,
\* unless it stays blocked in a send to a full channel: the signal is seen at
\* the select only, which a task that is sending reaches when the consumer
\* receives a batch; it also ends when the consumer drops the receiver.
C30_StopTerminatesUnlessBlocked ==
    []<>(~Blocked) => (stop_sent ~> (task_pc = "terminated"))

\* The task has ended on the stop signal with the receiver open, after the
\* consumer made room for the batch it was sending.
C30_Witness ==
    /\ stop_sent
    /\ task_pc = "terminated"
    /\ rx_open
    /\ received # <<>>
    /\ channel # <<>>

-----------------------------------------------------------------------------
(* Two processes making step, visit and note calls on the session at the same
   time.  To the record_step calls of SpecWriters this adds run_visit and
   run_note taken apart in the same way (load and change the copy in memory,
   then save_session), and a process that makes another call after its
   call has returned. *)

\* The calls the two processes make beyond their first ones.
MaxMoreCalls == 1

\* history: the calls made by a process after an earlier call of its own
more_calls == saving.calls

\* Variant: a visit also moves the head to what the visited sequence maps to.
VisitOnMovingHead(copy, content, seq, inherit_from) ==
    LET rec == copy.rec
        inherited == IF inherit_from[1] \in DOMAIN rec.seq_to_step
                     THEN rec.seq_to_step[inherit_from[1]] ELSE ""
        mapping == IF seq \notin DOMAIN rec.seq_to_step /\ inherit_from # None
                   THEN (seq :> inherited) @@ rec.seq_to_step
                   ELSE rec.seq_to_step
    IN  [copy EXCEPT
            !.rec.buffer_cache = IF seq \notin DOMAIN rec.buffer_cache
                                 THEN (seq :> content) @@ rec.buffer_cache
                                 ELSE rec.buffer_cache,
            !.rec.seq_to_step = mapping,
            !.rec.head = IF seq \in DOMAIN mapping THEN mapping[seq] ELSE rec.head]

\* The copy after the in-memory part of run_note, for a head that names a Step.
NoteOn(copy, intent) ==
    LET idx == CHOOSE i \in 1 .. Len(copy.rec.steps) :
                   /\ copy.rec.steps[i].id = copy.rec.head
                   /\ \A j \in 1 .. i - 1 : copy.rec.steps[j].id # copy.rec.head
    IN  [copy EXCEPT !.rec.steps[idx].intent = Some(intent)]

\* The copy after the in-memory part of run_visit.
VisitOn(copy, content, seq, inherit_from) ==
    LET rec == copy.rec
        inherited == IF inherit_from[1] \in DOMAIN rec.seq_to_step
                     THEN rec.seq_to_step[inherit_from[1]] ELSE ""
    IN  [copy EXCEPT
            !.rec.buffer_cache = IF seq \notin DOMAIN rec.buffer_cache
                                 THEN (seq :> content) @@ rec.buffer_cache
                                 ELSE rec.buffer_cache,
            !.rec.seq_to_step = IF seq \notin DOMAIN rec.seq_to_step /\ inherit_from # None
                                THEN (seq :> inherited) @@ rec.seq_to_step
                                ELSE rec.seq_to_step]

\* run_visit up to `if changed { save_session(..) }`.
LoadAndVisit(p, content, seq, inherit_from) ==
    /\ writers[p].pc = "idle"
    /\ LET done(result) == [pc |-> "done", seq |-> None, mem |-> None,
                            result |-> Some(result)]
           after == VisitOn(LoadedCopy, content, seq, inherit_from)
       IN  saving' = [saving EXCEPT !.writers[p] =
               IF LoadFails THEN done(Err("failed to read session file"))
               ELSE IF after = LoadedCopy THEN done(Ok)
               ELSE [pc |-> "mutated", seq |-> None, mem |-> Some(after),
                     result |-> Some(Ok)]]
    /\ UNCHANGED <<disk, origin, skipped, besidesWriters>>

\* run_note up to the call of save_session.
LoadAndNote(p, intent) ==
    /\ writers[p].pc = "idle"
    /\ LET done(result) == [pc |-> "done", seq |-> None, mem |-> None,
                            result |-> Some(result)]
       IN  saving' = [saving EXCEPT !.writers[p] =
               IF LoadFails THEN done(Err("failed to read session file"))
               ELSE IF head = "none" THEN done(Err("no head step to annotate"))
               ELSE IF FindStep(head) = 0 THEN done(Err("head step not found in session"))
               ELSE [pc |-> "mutated", seq |-> None,
                     mem |-> Some(NoteOn(LoadedCopy, intent)),
                     result |-> Some(Ok)]]
    /\ UNCHANGED <<disk, origin, skipped, besidesWriters>>

\* The call of p has returned and p is started again for another call.
NextCall(p) ==
    /\ writers[p].pc = "done"
    /\ more_calls < MaxMoreCalls
    /\ saving' = [saving EXCEPT !.writers[p] = IdleWriter,
                                !.calls = more_calls + 1]
    /\ UNCHANGED <<disk, origin, skipped, besidesWriters>>

NextConcurrent ==
    \E p \in Procs :
        \/ \E content \in Contents, seq \in Seqs, parent_seq \in Seqs :
               LoadAndMutate(p, content, seq, parent_seq)
        \/ \E content \in Contents, seq \in Seqs, inherit_from \in InheritFrom :
               LoadAndVisit(p, content, seq, inherit_from)
        \/ \E intent \in Intents : LoadAndNote(p, intent)
        \/ CreateTemp(p)
        \/ WriteChunk(p)
        \/ Persist(p)
        \/ SaveFails(p)
        \/ Crash(p)
        \/ NextCall(p)

SpecConcurrent == InitWriters /\ [][NextConcurrent]_vars

\* C35: for two processes performing step, visit or note operations on the
\* same session at the same time, under every interleaving of their loads
\* and atomic replacements each record on disk satisfies the structural
\* invariants: head is "none" or the id of a present Step, every parent id
\* resolves to an earlier Step, and Step ids are pairwise distinct.
C35_ConcurrentRecordsAreWellFormed ==
    /\ head = "none" \/ head \in StepIdsOf(steps)
    /\ \A i \in DOMAIN steps :
           \A k \in DOMAIN steps[i].parents :
               \E j \in 1 .. i - 1 : steps[j].id = steps[i].parents[k]
    /\ \A i, j \in DOMAIN steps : steps[i].id = steps[j].id => i = j

\* The record on disk has a Step with a parent, written by a process that
\* had loaded the record before the other process saved a note: the other
\* process returned without an error and the intent it saved is gone.
C35_Witness ==
    /\ last_writer # 0
    /\ writers[last_writer].pc = "done"
    /\ \E i \in DOMAIN steps : steps[i].parents # <<>>
    /\ \E p \in Procs \ {last_writer} :
           /\ writers[p].pc = "done"
           /\ writers[p].result = Some(Ok)
           /\ writers[p].mem # None
           /\ \E i \in DOMAIN writers[p].mem[1].rec.steps :
                  /\ writers[p].mem[1].rec.steps[i].intent # None
                  /\ steps[i].intent = None

-----------------------------------------------------------------------------
(* The bookkeeping of the single-writer session: cache, mapping, counter *)

\* Every sequence with a mapping entry has a cache entry.
MappedIsCached == DOMAIN seq_to_step \subseteq DOMAIN buffer_cache

\* A step, visit, note or export call leaves every entry of the content
\* cache and of the mapping as it was.
CallsKeepEntries ==
    last'.op \in {"step", "visit", "note", "export"} => EntriesStay

\* C33: the content cache and the seq -> step mapping are write-once: once a
\* sequence has a cache entry or a mapping entry, no step, visit, note or
\* export call changes or removes it, and a sequence never has a mapping
\* entry without having a cache entry.
C33_CacheAndMappingAreWriteOnce ==
    /\ [](MappedIsCached)
    /\ [][CallsKeepEntries]_vars

\* A step call on the sequence that created a Step has just returned Skip,
\* and the sequence still maps to that Step.
C33_Witness ==
    /\ session_exists
    /\ StepCall
    /\ last.result = Skip
    /\ \E i \in DOMAIN origin :
           /\ last.seq = Some(origin[i].seq)
           /\ origin[i].seq \in DOMAIN buffer_cache
           /\ seq_to_step[origin[i].seq] = steps[i].id

\* "step-" followed by k as three decimal digits, for k below 1000.
ThreeDigitId(k) ==
    "step-" \o ToString(k \div 100) \o ToString((k \div 10) % 10) \o ToString(k % 10)

\* The counter is the number of Steps and the k-th Step has the k-th id.
CounterCountsSteps ==
    /\ step_counter = Len(steps)
    /\ \A k \in DOMAIN steps : steps[k].id = ThreeDigitId(k)
    /\ \A j, k \in DOMAIN steps : steps[j].id = steps[k].id => j = k

\* A call that returns Created advances the counter by one and returns the
\* id of the new count, which no Step had; a call that returns Skip or fails
\* leaves the counter alone.
CounterAdvancesOnCreated ==
    /\ last'.result.kind = "Created" =>
           /\ step_counter' = step_counter + 1
           /\ last'.result.id = ThreeDigitId(step_counter + 1)
           /\ last'.result.id \notin StepIdsOf(steps)
    /\ last'.result.kind \in {"Skip", "Err"} => step_counter' = step_counter

\* C34: in a session used by one writer at a time the step counter equals
\* the number of Steps and the k-th Step created has the id "step-" followed
\* by k zero-padded to three digits; Step ids are pairwise distinct, no
\* Created result repeats an id, and Skip or failed calls do not advance the
\* counter.
C34_CounterNamesSteps ==
    /\ [](CounterCountsSteps)
    /\ [][CounterAdvancesOnCreated]_vars

\* Two Steps exist, named step-001 and step-002, and the latest call, a
\* record_step, returned Skip.
C34_Witness ==
    /\ session_exists
    /\ StepIds(steps) = <<"step-001", "step-002">>
    /\ step_counter = 2
    /\ StepCall
    /\ last.result = Skip

-----------------------------------------------------------------------------
(* init_session in a session directory.

   Each init is one process: it builds the session id from the clock, read
   to the second, and from its process id, and saves the new record at
   <session id>.json in the session directory.  The clock moves on in steps
   shorter than a second; a process id is free for a new process once the
   process that had it has exited, and processes of different process-id
   namespaces that share the directory have process ids of their own. *)

\* The clock runs from 0 to MaxClock, in steps of 1/TicksPerSecond second.
MaxClock == 3
TicksPerSecond == 2

\* The init calls made.
MaxInits == 3

\* The process ids init processes get.
InitPids == {7, 8}

\* directory while inits are made
clock == directory.clock          \* the clock
init_log == directory.init_log    \* history: the file names init calls returned

\* chrono::Utc::now().format("%Y%m%dT%H%M%S"): the clock read to the second.
ts_compact(now) == "20260101T00000" \o ToString(now \div TicksPerSecond)

\* format!("track-{ts_compact}-{pid}")
NewSessionId(now, pid) == "track-" \o ts_compact(now) \o "-" \o ToString(pid)

\* The record init_session saves for the initial content.
NewSession(id, content) ==
    Text(TRUE,
         save_session(
             [id |-> id, base |-> None, head |-> "none", steps |-> <<>>,
              meta |-> None],
             [version |-> 1, file |-> file, default_actor |-> default_actor,
              buffer_cache |-> (0 :> content), seq_to_step |-> <<>>,
              step_counter |-> 0, created_at |-> created_at]))

\* The session directory is empty.
InitDirectory ==
    /\ directory = [dir_files |-> <<>>, listed |-> None, clock |-> 0,
                    init_log |-> <<>>]
    /\ QueryIdle
    /\ WritersIdle
    /\ WatcherIdle
    /\ ConvoIdle
    /\ session_exists = FALSE
    /\ steps = <<>>
    /\ head = "none"
    /\ buffer_cache = <<>>
    /\ seq_to_step = <<>>
    /\ step_counter = 0
    /\ emitted = None
    /\ last = Call("init", None, Ok)
    /\ origin = <<>>
    /\ skipped = <<>>

\* Time passes.
Tick ==
    /\ clock < MaxClock
    /\ directory' = [directory EXCEPT !.clock = clock + 1]
    /\ UNCHANGED <<sessionVars, queryVars, writerVars, watcherVars, convoVars>>

\* init_session in a process with the given process id: save_session
\* renames its temporary file to <session id>.json.
run_init(pid, content) ==
    /\ Len(init_log) < MaxInits
    /\ LET id == NewSessionId(clock, pid)
           name == id \o ".json"
       IN  directory' = [directory EXCEPT
               !.dir_files = (name :> NewSession(id, content)) @@ dir_files,
               !.init_log = Append(init_log, name)]
    /\ UNCHANGED <<sessionVars, queryVars, writerVars, watcherVars, convoVars>>

InitCall == \E pid \in InitPids, content \in Contents : run_init(pid, content)

NextInit == Tick \/ InitCall

SpecInit == InitDirectory /\ [][NextInit]_vars

\* No record of the directory is replaced or removed.
RecordsStay ==
    \A name \in DOMAIN dir_files :
        name \in DOMAIN dir_files' /\ dir_files'[name] = dir_files[name]

\* An init call makes a file under a name the directory did not have.
InitMakesNewName ==
    init_log' # init_log =>
        init_log'[Len(init_log')] \notin DOMAIN dir_files

\* C36: every init call creates its session record under a file name that no
\* existing session of the directory uses, so an init never overwrites or
\* replaces the record of another session.
C36_InitNeverReplacesASession ==
    [][InitMakesNewName /\ RecordsStay]_vars

\* Two init calls were made and the directory holds one session file, with
\* the initial content of the second call.
C36_Witness ==
    /\ Len(init_log) = 2
    /\ init_log[1] = init_log[2]
    /\ DOMAIN dir_files = {init_log[2]}
    /\ \E id \in {NewSessionId(clock, pid) : pid \in InitPids} :
           dir_files[init_log[2]] = NewSession(id, <<"A", "B">>)

\* What holds: init calls made in different seconds, or by processes with
\* different process ids, get different session ids.
SessionIdsDifferByTimeOrPid ==
    \A t1, t2 \in 0 .. MaxClock, p1, p2 \in InitPids :
        (t1 \div TicksPerSecond # t2 \div TicksPerSecond \/ p1 # p2)
            => NewSessionId(t1, p1) # NewSessionId(t2, p2)

-----------------------------------------------------------------------------
(* Chained reads of a growing log (crates/toolpath-claude/src/reader.rs).

   A caller reads the log with read_from_offset, starting at offset 0 and
   passing each returned offset to the next call, while the log's writer
   appends lines.  A line is the next entry or an empty line, ended by "\n"
   or by "\r\n", and its bytes can become visible to a reader in several
   parts. *)

\* The lines the writer writes, and the reads of the chain.
MaxLines == 3
MaxReads == 3

\* convo while the chain of reads runs
file_data == convo.file_data      \* the bytes of the log a reader sees
pending == convo.pending          \* the bytes of the line being written, not visible yet
lines_written == convo.lines_written  \* history: the lines the writer has begun
entries_begun == convo.entries_begun  \* history: the entries the writer has begun
next_offset == convo.next_offset  \* the offset the caller passes to its next call
returned == convo.returned        \* history: the entries the calls returned, in order
reads == convo.reads              \* history: the calls made
last_read == convo.last_read      \* the latest call: offset passed, file length, result
read_torn == convo.read_torn      \* history: a call was made with a line partly visible

LineEndings == {<<NL>>, <<CR, NL>>}

\* The caller is about to make its first call on the empty log.
InitReader ==
    /\ convo = [file_data |-> <<>>,
                pending |-> <<>>,
                lines_written |-> 0,
                entries_begun |-> 0,
                next_offset |-> 0,
                returned |-> <<>>,
                reads |-> 0,
                last_read |-> None,
                read_torn |-> FALSE]
    /\ QueryIdle
    /\ WritersIdle
    /\ ListIdle
    /\ WatcherIdle
    /\ session_exists = FALSE
    /\ steps = <<>>
    /\ head = "none"
    /\ buffer_cache = <<>>
    /\ seq_to_step = <<>>
    /\ step_counter = 0
    /\ emitted = None
    /\ last = Call("read_from_offset", None, Ok)
    /\ origin = <<>>
    /\ skipped = <<>>

\* The writer writes a line, given as its text and its ending; the first
\* `shown` bytes of it are visible at once.
WriterBegins(text, ending, shown) ==
    /\ pending = <<>>
    /\ lines_written < MaxLines
    /\ LET bytes == text \o ending
       IN  /\ shown \in 1 .. Len(bytes)
           /\ convo' = [convo EXCEPT
                  !.file_data = file_data \o SubSeq(bytes, 1, shown),
                  !.pending = SubSeq(bytes, shown + 1, Len(bytes)),
                  !.lines_written = lines_written + 1,
                  !.entries_begun = IF text = <<>> THEN entries_begun
                                    ELSE entries_begun + 1]
    /\ UNCHANGED besidesConvo

\* The next entry as a line.
WriteEntry ==
    /\ entries_begun < MaxEntries
    /\ \E ending \in LineEndings, shown \in 1 .. EntryBytes + 2 :
           WriterBegins(Line(entries_begun + 1), ending, shown)

\* An empty line.
WriteEmptyLine ==
    \E ending \in LineEndings, shown \in 1 .. 2 :
        WriterBegins(<<>>, ending, shown)

\* More bytes of the line being written become visible.
WriterContinues ==
    /\ pending # <<>>
    /\ \E shown \in 1 .. Len(pending) :
           convo' = [convo EXCEPT
               !.file_data = file_data \o SubSeq(pending, 1, shown),
               !.pending = SubSeq(pending, shown + 1, Len(pending))]
    /\ UNCHANGED besidesConvo

\* The caller's next call: read_from_offset(path, next_offset).
ReadNext ==
    /\ reads < MaxReads
    /\ LET got == read_from_offset(file_data, next_offset)
       IN  convo' = [convo EXCEPT
               !.next_offset = got.offset,
               !.returned = returned \o got.entries,
               !.reads = reads + 1,
               !.read_torn = read_torn \/ pending # <<>>,
               !.last_read = Some([from |-> next_offset,
                                   file_len |-> Len(file_data),
                                   entries |-> got.entries,
                                   offset |-> got.offset])]
    /\ UNCHANGED besidesConvo

NextReader == WriteEntry \/ WriteEmptyLine \/ WriterContinues \/ ReadNext

SpecReader == InitReader /\ [][NextReader]_vars

-----------------------------------------------------------------------------
(* Properties of the chained reads *)

\* The entries whose line is in the file with its ending.
WholeEntries(data) ==
    { k \in 1 .. MaxEntries :
        \E i \in 1 .. Len(data), ending \in LineEndings :
            LET bytes == Line(k) \o ending
            IN  /\ i + Len(bytes) - 1 <= Len(data)
                /\ SubSeq(data, i, i + Len(bytes) - 1) = bytes
                /\ i = 1 \/ data[i - 1] = NL }

\* No entry was returned by two calls, or twice by one.
NoEntryTwice ==
    \A i, j \in DOMAIN returned : returned[i] = returned[j] => i = j

\* The file is as the latest call found it.
ReadUpToDate == last_read # None /\ last_read[1].file_len = Len(file_data)

\* After a call, every entry the file holds whole has been returned.
NoEntrySkipped ==
    ReadUpToDate => WholeEntries(file_data) \subseteq { returned[i] : i \in DOMAIN returned }

\* C31: for a log that only grows by appending, the chain of read_from_offset
\* calls returns every valid entry of the file exactly once: no entry is
\* returned twice and none is skipped, wherever the reads fall between the
\* writer's appends.
C31_ChainReturnsEveryEntryOnce == NoEntryTwice /\ NoEntrySkipped

\* Entry 1 is whole in the file, the chain has read the file to its end, and
\* no call returned the entry.
C31_Witness ==
    /\ ReadUpToDate
    /\ 1 \in WholeEntries(file_data)
    /\ returned = <<>>
    /\ next_offset = Len(file_data)

\* What holds: the chain loses and repeats nothing when every line ends
\* with "\n" alone and is whole each time the caller reads.
ChainOnWholeLines ==
    (~read_torn /\ CR \notin { file_data[i] : i \in DOMAIN file_data })
        => (NoEntryTwice /\ NoEntrySkipped)

\* C32: read_from_offset returns the end-of-file position as the new offset:
\* for every file content and every byte_offset the returned offset equals
\* the length of the file at the time of the read and never exceeds it.
C32_ReturnsEndOfFile ==
    /\ last_read # None => last_read[1].offset = last_read[1].file_len
    /\ \A offset \in 0 .. Len(file_data) + 1 :
           read_from_offset(file_data, offset).offset = Len(file_data)

\* A call on a file whose last line has no newline yet returned an offset
\* one byte past the end of the file.
C32_Witness ==
    /\ last_read # None
    /\ last_read[1].offset = last_read[1].file_len + 1
    /\ pending # <<>>

\* For a byte_offset beyond the length of the file the call returns no
\* entries and the length of the file.
PastEndOfFile ==
    \A offset \in Len(file_data) + 1 .. Len(file_data) + 2 :
        read_from_offset(file_data, offset) = [entries |-> <<>>, offset |-> Len(file_data)]

(***************************************************************************)
(* One poll of the watcher trait: toolpath-claude/src/provider.rs.  The    *)
(* poll turns the entries that the file watcher returns into events, one   *)
(* iteration of its loop per entry.                                        *)
(***************************************************************************)
MaxPollEntries == 3

ToolIds == {"t1", "t2"}

ToolIdLists == {<<>>, <<"t1">>, <<"t2">>, <<"t1", "t2">>}

\* The entries a log line can hold, as far as the poll looks at them: the
\* role of the message ("none" for an entry without message), whether it
\* has text, the ids of its tool_use parts and of its tool_result parts.
LogEntry(uuid, role, text, uses, results) ==
    [uuid |-> uuid, role |-> role, text |-> text,
     tool_uses |-> uses, tool_results |-> results]

LogEntries(uuid) ==
    {LogEntry(uuid, "none", FALSE, <<>>, <<>>)}
        \cup {LogEntry(uuid, "assistant", TRUE, uses, <<>>) : uses \in ToolIdLists}
        \cup {LogEntry(uuid, "user", TRUE, <<>>, results) : results \in {<<>>, <<"t1">>}}
        \cup {LogEntry(uuid, "user", FALSE, <<>>, results) : results \in ToolIdLists \ {<<>>}}

poll_entries == convo.poll_entries

polled == convo.polled

events == convo.events

\* message_to_turn: the turn takes the uuid of the entry as its id and one
\* invocation per tool_use part; the result of an invocation is looked up
\* among the parts of the same message.
message_to_turn(entry) ==
    [id |-> entry.uuid,
     role |-> entry.role,
     tool_uses |->
         [k \in DOMAIN entry.tool_uses |->
             [id |-> entry.tool_uses[k],
              result |-> IF \E r \in DOMAIN entry.tool_results :
                                entry.tool_results[r] = entry.tool_uses[k]
                         THEN <<entry.uuid>>
                         ELSE None]]]

TurnEvent(type, turn) == [type |-> type, turn |-> turn, data |-> None]

entry_to_watcher_event(entry) ==
    IF entry.role # "none"
    THEN TurnEvent("Turn", message_to_turn(entry))
    ELSE [type |-> "Progress", turn |-> None, data |-> entry.uuid]

is_tool_result_only(entry) ==
    /\ entry.role = "user"
    /\ ~entry.text
    /\ entry.tool_results # <<>>

\* merge_tool_results on a slice of one turn: each result of the message
\* goes to the first invocation with its id that has no result yet.
RECURSIVE MergeFrom(_, _, _)
MergeFrom(turn, entry, r) ==
    IF r > Len(entry.tool_results)
    THEN turn
    ELSE LET open == {k \in DOMAIN turn.tool_uses :
                          /\ turn.tool_uses[k].id = entry.tool_results[r]
                          /\ turn.tool_uses[k].result = None}
             k == CHOOSE k \in open : \A j \in open : k <= j
         IN  IF open = {}
             THEN MergeFrom(turn, entry, r + 1)
             ELSE MergeFrom([turn EXCEPT !.tool_uses[k].result = <<entry.uuid>>],
                            entry, r + 1)

merge_tool_results(turn, entry) == MergeFrom(turn, entry, 1)

\* The test of the backwards search: a Turn or TurnUpdated event with an
\* invocation that has no result and whose id is among the results.
TakesResultOf(event, entry) ==
    /\ event.type \in {"Turn", "TurnUpdated"}
    /\ \E k \in DOMAIN event.turn.tool_uses :
           /\ event.turn.tool_uses[k].result = None
           /\ \E r \in DOMAIN entry.tool_results :
                  entry.tool_results[r] = event.turn.tool_uses[k].id

\* A loop body without the branch for tool-result-only entries.
PollEntryEmittingAll(evs, entry) == Append(evs, entry_to_watcher_event(entry))

\* One iteration of the loop of poll.
PollEntry(evs, entry) ==
    IF entry.role = "none"
    THEN Append(evs, entry_to_watcher_event(entry))
    ELSE IF is_tool_result_only(entry)
    THEN LET found == {k \in DOMAIN evs : TakesResultOf(evs[k], entry)}
             k == CHOOSE k \in found : \A j \in found : j <= k
             updated == merge_tool_results(evs[k].turn, entry)
         IN  IF found = {}
             THEN evs
             ELSE Append([evs EXCEPT ![k].turn = updated],
                         TurnEvent("TurnUpdated", updated))
    ELSE Append(evs, entry_to_watcher_event(entry))

InitPoll ==
    /\ \E n \in 0 .. MaxPollEntries :
           \E es \in [1 .. n -> UNION {LogEntries("u" \o ToString(i)) : i \in 1 .. MaxPollEntries}] :
               /\ \A i \in 1 .. n : es[i].uuid = "u" \o ToString(i)
               /\ convo = [poll_entries |-> es, polled |-> 0, events |-> <<>>]
    /\ QueryIdle
    /\ WritersIdle
    /\ ListIdle
    /\ WatcherIdle
    /\ session_exists = FALSE
    /\ steps = <<>>
    /\ head = "none"
    /\ buffer_cache = <<>>
    /\ seq_to_step = <<>>
    /\ step_counter = 0
    /\ emitted = None
    /\ last = Call("poll", None, Ok)
    /\ origin = <<>>
    /\ skipped = <<>>

PollLoop ==
    /\ polled < Len(poll_entries)
    /\ convo' = [convo EXCEPT !.polled = polled + 1,
                              !.events = PollEntry(events, poll_entries[polled + 1])]
    /\ UNCHANGED besidesConvo

NextPoll == PollLoop

SpecPoll == InitPoll /\ [][NextPoll]_vars

TurnUpdatedFollowsTurn ==
    \A k \in DOMAIN events :
        events[k].type = "TurnUpdated"
            => \E j \in 1 .. k - 1 :
                   /\ events[j].type = "Turn"
                   /\ events[j].turn.id = events[k].turn.id

ResultOnlyYield ==
    LET entry == poll_entries[polled + 1]
        matching == {k \in DOMAIN events : TakesResultOf(events[k], entry)}
    IN  (polled' = polled + 1 /\ is_tool_result_only(entry))
            => /\ \A k \in DOMAIN events : events'[k].type = events[k].type
               /\ IF matching # {}
                  THEN /\ Len(events') = Len(events) + 1
                       /\ events'[Len(events')].type = "TurnUpdated"
                       /\ events'[Len(events')].turn.id
                              \in {events[k].turn.id : k \in matching}
                  ELSE events' = events

\* C37: in the events of one poll every TurnUpdated event is preceded by a
\* Turn event with the same turn id, and a tool-result-only user entry
\* never yields a Turn event: it yields one TurnUpdated when a turn that
\* takes one of its results is among the events of this poll so far, and
\* no event otherwise.
C37_PollUpdatesKnownTurns ==
    [](TurnUpdatedFollowsTurn) /\ [][ResultOnlyYield]_vars

\* A finished poll in which one tool-result-only entry has updated a turn
\* and another one was dropped.
C37_Witness ==
    /\ polled = Len(poll_entries)
    /\ \E k \in DOMAIN events : events[k].type = "TurnUpdated"
    /\ Cardinality({i \in DOMAIN poll_entries : is_tool_result_only(poll_entries[i])})
           > Cardinality({k \in DOMAIN events : events[k].type = "TurnUpdated"})

(***************************************************************************)
(* derive_path: toolpath-claude/src/derive.rs.  The function folds the     *)
(* entries of a conversation into the steps of a Path; the model runs the  *)
(* loop one entry per step, so that every state holds the Path of the      *)
(* conversation read so far.                                               *)
(***************************************************************************)
MaxConvoEntries == 4

\* Entry uuids, as sequences of characters.  The first three are the uuids
\* of test_derive_path_sidechain_uses_parent_uuid.
UuidMain11 == <<"u", "u", "i", "d", "-", "m", "a", "i", "n", "-", "1", "1">>
UuidMain22 == <<"u", "u", "i", "d", "-", "m", "a", "i", "n", "-", "2", "2">>
UuidSide33 == <<"u", "u", "i", "d", "-", "s", "i", "d", "e", "-", "3", "3">>
UuidShort == <<"u", "4">>

EntryUuids == {UuidMain11, UuidMain22, UuidSide33, UuidShort}

\* What derive_path reads of an entry.  `content` tells what the parts of
\* the message hold: "text" (non-blank text), "tool_use", "tool_result"
\* (a user message with tool_result parts only) or "none".
ConvoEntries ==
    [uuid : EntryUuids \cup {<<>>},
     parent_uuid : {None} \cup {<<u>> : u \in EntryUuids},
     is_sidechain : BOOLEAN,
     role : {"user", "assistant", "system", "none"},
     content : {"text", "tool_use", "tool_result", "none"}]

path_steps == convo.path_steps

last_step_id == convo.last_step_id

entries_seen == convo.entries_seen

\* safe_prefix: the first n characters of s.
safe_prefix(s, n) == SubSeq(s, 1, Min(n, Len(s)))

\* format!("step-{}", safe_prefix(uuid, 8))
DerivedStepId(uuid) == <<"step-">> \o safe_prefix(uuid, 8)

\* The entries that get no step: empty uuid, no message, a system message,
\* or no text, tool use or file change among the parts.
EntrySkipped(entry) ==
    \/ entry.uuid = <<>>
    \/ entry.role \in {"none", "system"}
    \/ entry.content \in {"tool_result", "none"}

\* One iteration of the loop of derive_path on the steps and last_step_id
\* so far.  Each step keeps the uuid of its entry beside what the Step
\* holds.
DeriveEntry(state, entry) ==
    IF EntrySkipped(entry)
    THEN state
    ELSE LET step_id == DerivedStepId(entry.uuid)
             parents == IF entry.is_sidechain
                        THEN IF entry.parent_uuid # None
                             THEN <<DerivedStepId(entry.parent_uuid[1])>>
                             ELSE <<>>
                        ELSE state.last_step_id
         IN  [path_steps |-> Append(state.path_steps,
                                    [id |-> step_id,
                                     parents |-> parents,
                                     uuid |-> entry.uuid,
                                     is_sidechain |-> entry.is_sidechain]),
              last_step_id |-> IF entry.is_sidechain
                               THEN state.last_step_id
                               ELSE <<step_id>>]

\* The head of the Path: the last step of the main line, or "empty".
DerivedHead == IF last_step_id = <<>> THEN <<"empty">> ELSE last_step_id[1]

InitDerive ==
    /\ convo = [path_steps |-> <<>>, last_step_id |-> <<>>, entries_seen |-> <<>>]
    /\ QueryIdle
    /\ WritersIdle
    /\ ListIdle
    /\ WatcherIdle
    /\ session_exists = FALSE
    /\ steps = <<>>
    /\ head = "none"
    /\ buffer_cache = <<>>
    /\ seq_to_step = <<>>
    /\ step_counter = 0
    /\ emitted = None
    /\ last = Call("derive_path", None, Ok)
    /\ origin = <<>>
    /\ skipped = <<>>

\* The next entry of the conversation; entries with a uuid have a uuid of
\* their own.
DeriveLoop ==
    /\ Len(entries_seen) < MaxConvoEntries
    /\ \E entry \in ConvoEntries :
           /\ entry.uuid # <<>>
                  => \A i \in DOMAIN entries_seen : entries_seen[i].uuid # entry.uuid
           /\ entry.role = "none" => entry.content = "none"
           /\ entry.content = "tool_result" => entry.role = "user"
           /\ entry.content = "tool_use" => entry.role = "assistant"
           /\ LET next == DeriveEntry([path_steps |-> path_steps,
                                       last_step_id |-> last_step_id], entry)
              IN  convo' = [path_steps |-> next.path_steps,
                            last_step_id |-> next.last_step_id,
                            entries_seen |-> Append(entries_seen,
                                                    [uuid |-> entry.uuid,
                                                     skipped |-> EntrySkipped(entry)])]
    /\ UNCHANGED besidesConvo

NextDerive == DeriveLoop

SpecDerive == InitDerive /\ [][NextDerive]_vars

ResolvesInPath(id) == \E j \in DOMAIN path_steps : path_steps[j].id = id

\* C38: in the Path that derive_path makes, every parent id of every Step
\* is the id of a Step of the same Path, also for the steps of sidechain
\* entries, whose parent comes from the parent uuid of the entry.
C38_DerivedParentsResolve ==
    \A i \in DOMAIN path_steps :
        \A k \in DOMAIN path_steps[i].parents :
            ResolvesInPath(path_steps[i].parents[k])

\* A sidechain step whose parent names an entry of the conversation that
\* was read before it and got no step.
C38_Witness ==
    \E i \in DOMAIN path_steps :
        /\ path_steps[i].is_sidechain
        /\ path_steps[i].parents # <<>>
        /\ ~ResolvesInPath(path_steps[i].parents[1])
        /\ \E e, f \in DOMAIN entries_seen :
               /\ e < f
               /\ entries_seen[f].uuid = path_steps[i].uuid
               /\ entries_seen[e].skipped
               /\ entries_seen[e].uuid # <<>>
               /\ DerivedStepId(entries_seen[e].uuid) = path_steps[i].parents[1]

\* What holds: the parents of the steps of the main line are steps that
\* come earlier in the Path, and the head is a step unless the Path has
\* no step of the main line.
MainLineParentsResolve ==
    /\ \A i \in DOMAIN path_steps :
           ~path_steps[i].is_sidechain
               => \A k \in DOMAIN path_steps[i].parents :
                      \E j \in 1 .. i - 1 : path_steps[j].id = path_steps[i].parents[k]
    /\ last_step_id # <<>> => ResolvesInPath(DerivedHead)

\* C39: the Step ids of a Path made by derive_path are pairwise distinct:
\* the steps of two entries with different uuids never have the same id.
C39_DerivedStepIdsDistinct ==
    \A i, j \in DOMAIN path_steps :
        path_steps[i].uuid # path_steps[j].uuid
            => path_steps[i].id # path_steps[j].id

\* Two steps of entries with different uuids have the same id.
C39_Witness ==
    \E i, j \in DOMAIN path_steps :
        /\ i < j
        /\ path_steps[i].uuid # path_steps[j].uuid
        /\ path_steps[i].id = path_steps[j].id
        /\ path_steps[j].parents = <<path_steps[i].id>>

\* What holds: the ids differ when the uuids differ within their first
\* eight characters.
StepIdsDifferByPrefix ==
    \A i, j \in DOMAIN path_steps :
        safe_prefix(path_steps[i].uuid, 8) # safe_prefix(path_steps[j].uuid, 8)
            => path_steps[i].id # path_steps[j].id

====
